---------------------------- MODULE Spec2Model ----------------------------
(***************************************************************************)
(* State-machine model of the cluster metadata coordinator (ceresmeta).   *)
(*                                                                         *)
(*  - EntryLock            src/unnamed/part_001                            *)
(*  - gRPC service         src/server/grpcservice/service.go               *)
(*  - HTTP API wrapper     src/server/grpcservice/service.go               *)
(*                                                                         *)
(* Every subsystem has its own specification (SpecLock, ...); the          *)
(* variables of the other subsystems keep their initial values.            *)
(***************************************************************************)
EXTENDS Integers, Sequences, FiniteSets, TLC

Range(s) == {s[i] : i \in DOMAIN s}

(***************************************************************************)
(* State                                                                   *)
(***************************************************************************)

\* EntryLock
VARIABLES
  lock,        \* EntryLock.lock (sync.Mutex): "free" or the goroutine holding it
  entryLocks,  \* EntryLock.entryLocks: the set of keys of the map
  lpc,         \* position of each procedure inside TryLock / UnLock
  locks,       \* the argument `locks` of the call in progress
  li,          \* index of the for-range loop in progress
  lret,        \* result of the call: "none", "true", "false", "ok", "panic"
  lpre,        \* entryLocks as it was when the call acquired the mutex
  holds,       \* entries a procedure got from a successful TryLock and has not unlocked
  misuse       \* some UnLock named an entry its caller did not hold

lockVars == <<lock, entryLocks, lpc, locks, li, lret, lpre, holds, misuse>>

\* Membership and the connection cache of the gRPC service
VARIABLES
  leader,    \* the leader as this instance's member sees it
  nchanges,  \* leadership changes so far
  conns,     \* Service.conns (sync.Map): endpoint -> stored connection, 0 when absent
  dialed     \* connections created so far; connection k is the k-th one created

memberVars == <<leader, nchanges, conns, dialed>>

\* Heartbeat streams
VARIABLES
  hb  \* per stream, the locals of NodeHeartbeat and what it has called:
      \*   pc            position of the handler
      \*   req           the frame received last
      \*   nrecv         frames received so far
      \*   bound, node   streamBinder.bound, streamBinder.node
      \*   ctxCancelled  the handler's ctx has been cancelled
      \*   stream        forwarder.stream: 0 (nil) or the index of a forwarded stream
      \*   addr          forwarder.addr
      \*   cancel        forwarder.cancel: 0 (nil), the index of the forwarded stream it
      \*                 cancels, or -1 (the context of a stream that was never created)
      \*   errCh         forwarder.errCh, a channel of capacity 1
      \*   fwd           the forwarded streams opened so far: addr, state, pump goroutine
      \*   inflight      frames whose ProcessHeartbeat has been called and has not returned
      \*   procLog       the frames passed to ProcessHeartbeat, in call order
      \*   bindLog       the calls of BindHeartbeatStream, in call order
      \*   unbindLog     the calls of UnbindHeartbeatStream, in call order
      \*   sent          (frame, forwarded stream) pairs sent to the leader
      \*   failed        frames whose bind or processing failed
      \*   exitCause     why the handler returned

\* The Handler's heartbeat streams
VARIABLES
  senders  \* per node name, the stream whose sender is bound to it, or "none"

hbVars == <<hb, senders>>

\* Unary gRPC requests
VARIABLES
  rpc  \* per request, the locals of the unary handler and what it has called:
       \*   pc        position of the handler
       \*   method    the RPC called
       \*   stub      the handler is one of the "impl later" bodies
       \*   leaderAt  the leader when the handler asked for it
       \*   seen      what getForwardedAddr returned: "fail", "local" or an endpoint
       \*   cc        the connection getForwardedGrpcClient returns, 0 when none
       \*   fwdTo     the endpoint the request was sent to, "none" when not sent
       \*   answer    what the leader answered, "none" when not asked
       \*   local     calls made to the local cluster manager
       \*   resp      what the handler returned, "none" until it returns

rpcVars == <<rpc>>

\* HTTP requests
VARIABLES
  web  \* per request, the position inside printRequestInfo / wrap and its effects:
       \*   pc        position of the handler
       \*   route     the endpoint requested
       \*   leaderAt  the leader when forwardToLeader was called (at arrival otherwise)
       \*   fwd       result of forwardToLeader: "none", "err", "isLeader", "resp"
       \*   answer    the leader's http.Response, NoResponse when there is none
       \*   written   the responses written to the http.ResponseWriter, in order
       \*   ran       runs of the endpoint's apiFunc

webVars == <<web>>

\* Event dispatch
VARIABLES
  dconns,   \* DispatchImpl.conns (sync.Map): address -> stored connection, 0 when absent
  ddialed,  \* connections created so far by the dispatch; connection k is the k-th
  disp      \* per Dispatch call, its locals and what it has done:
            \*   pc      position of the call
            \*   op      the method called
            \*   addr    the node address
            \*   cc      the connection getGrpcClient returns, 0 when none
            \*   rpcs    RPCs sent to the node
            \*   resp    what came back: NoRpc, TransportError or a response
            \*   ret     what the call returned, NoReturn until it returns

dispVars == <<dconns, ddialed, disp>>

\* KV storage of one cluster
VARIABLES
  stSchemas,     \* schema rows: [id, name]
  stTables,      \* table rows, one per (schema id, table name): [sid, name, id, shard]
  stNodes,       \* node rows: node name -> lease, 0 when there is no row
  stTopology,    \* the cluster topology / ClusterView: [version, shardNodes]
  stShardViews,  \* shard id -> [version, tableIds]
  nextID         \* the next ID the allocator hands out

storeVars == <<stSchemas, stTables, stNodes, stTopology, stShardViews, nextID>>

\* Cluster: the cache, its lock and the calls in progress
VARIABLES
  cwriter,       \* Cluster.lock: the caller holding the write lock, or "free"
  schemasCache,  \* schema name -> schema id, 0 when the name is not in the map
  tableMap,      \* schema name -> table name -> [id, shard], NoTable when absent
  shardsLoaded,  \* the keys of shardsCache
  shardTables,   \* shard id -> the keys of Shard.tables
  nodesCache,    \* node name -> [present, lease, shardIDs]
  cl,            \* per caller, the call in progress: its arguments and locals
  nops,          \* calls made so far
  created,       \* the CreateTable calls that returned an ID
  schemaRets,    \* the CreateSchema calls that returned an ID
  dropRets,      \* the DropTable calls that returned
  lastRet,       \* the call that returned last: [caller, op, ret]
  crashed        \* some call has panicked

cacheVars == <<cwriter, schemasCache, tableMap, shardsLoaded, shardTables, nodesCache>>

clusterVars == <<cacheVars, cl, nops, created, schemaRets, dropRets, lastRet, crashed>>

\* Callers of the versioned view updates of the storage
VARIABLES
  upd  \* per updater: pc, the view it updates, the version it read, its last result

updVars == <<upd>>

\* Scatter: the initial assignment of the shards
VARIABLES
  scCfg,      \* the cluster's [shardTotal, minNodeCount]
  scNodes,    \* the registered nodes, in the order of their registration
  scView,     \* the ClusterView: [version, state, shards], shards[i] the node of shard i
  sc,         \* per scatter procedure: pc, polled, and the snapshot it works on
  scCommits   \* successful updates of the ClusterView by a scatter

scVars == <<scCfg, scNodes, scView, sc, scCommits>>

\* Procedure manager
VARIABLES
  coordUp,  \* the coordinator process is running
  ncrash,   \* crashes of the coordinator so far
  pmeta,    \* the persisted Meta of each procedure ID: kind, state, step (the raw
            \* state), and for a TransferLeader its nodes and snapshot version
  prun,     \* the procedures the running manager has in memory
  psent,    \* the procedures whose RPC of the current step has been sent and whose
            \* step has not been persisted yet (in memory)
  ptables,  \* table name -> [exists, partitioned]
  pview,    \* the ClusterView of shard 1: [version, shardNodes], entries [node, role]
  events    \* the RPCs sent, the updates of the ClusterView and the crashes, in
            \* order: [op, node, pid, ver]

procVars == <<coordUp, ncrash, pmeta, prun, psent, ptables, pview, events>>

\* ID allocator of a Cluster
VARIABLES
  allocKV,    \* the end of the last range, as persisted under the allocator's key
  allocNext,  \* the ID handed out last from the range in memory
  allocEnd,   \* the end of the range in memory
  handed,     \* the IDs handed out, in order: [kind, raw, id]
  nrestart    \* restarts of the coordinator so far

allocVars == <<allocKV, allocNext, allocEnd, handed, nrestart>>

\* Handlers and functions that keep no state of their own
VARIABLES
  gst  \* one call of API.getShardTables: the request (req), the shard IDs of the
       \* cluster's topology (shards), the result (ret) and the shard IDs passed
       \* to GetShardTables (shardIDs)

VARIABLES
  gts  \* one updateCacheLocked followed by one call of Cluster.GetTables: what
       \* was loaded (view, nodesLoaded, tables), shardsCache, and the call's
       \* arguments (req) and result (ret)

VARIABLES
  conv  \* per enum type, one value on its way through the converters: the value
        \* of the storage package (val), its protobuf value (pb) and the value
        \* converted back (back); "none" for what has not been made yet

fnVars == <<gst, gts, conv>>

\* The coordinator's procedures and its allocator
coordVars == <<scVars, procVars, allocVars, fnVars>>

\* What the actions of one subsystem leave alone.
notLock == <<memberVars, hbVars, rpcVars, webVars, dispVars, storeVars, clusterVars, updVars,
             coordVars>>
notHB == <<lockVars, rpcVars, webVars, dispVars, storeVars, clusterVars, updVars,
           coordVars>>
notRpc == <<lockVars, hbVars, webVars, dispVars, storeVars, clusterVars, updVars,
            coordVars>>
notWeb == <<lockVars, hbVars, rpcVars, dispVars, storeVars, clusterVars, updVars,
            coordVars>>
notDisp == <<lockVars, memberVars, hbVars, rpcVars, webVars, storeVars, clusterVars, updVars,
             coordVars>>
notCluster == <<lockVars, memberVars, hbVars, rpcVars, webVars, dispVars, updVars,
                coordVars>>
notStore == <<lockVars, memberVars, hbVars, rpcVars, webVars, dispVars, clusterVars,
              coordVars>>

notScatter == <<lockVars, memberVars, hbVars, rpcVars, webVars, dispVars, storeVars,
                clusterVars, updVars, procVars, allocVars, fnVars>>
notProc == <<lockVars, memberVars, hbVars, rpcVars, webVars, dispVars, storeVars,
             clusterVars, updVars, scVars, allocVars, fnVars>>
notAlloc == <<lockVars, memberVars, hbVars, rpcVars, webVars, dispVars, storeVars,
              clusterVars, updVars, scVars, procVars, fnVars>>
notFn == <<lockVars, memberVars, hbVars, rpcVars, webVars, dispVars, storeVars,
           clusterVars, updVars, scVars, procVars, allocVars>>

vars == <<lockVars, memberVars, hbVars, rpcVars, webVars, dispVars, storeVars, clusterVars, updVars,
          coordVars>>

(***************************************************************************)
(* EntryLock                                                               *)
(***************************************************************************)

\* Longest entry list a caller passes to TryLock / UnLock.
MaxLockLen == 2

\* The 64-bit entries (shard IDs) the callers use.
Entries == {1, 2}

\* The concurrent procedures (goroutines) sharing one EntryLock.
Procs == {"p1", "p2"}

\* Every []uint64 argument: lists with repeated entries and the empty list included.
LockLists == UNION {[1..n -> Entries] : n \in 0..MaxLockLen}

InitLock ==
  /\ lock = "free"
  /\ entryLocks = {}
  /\ lpc = [p \in Procs |-> "idle"]
  /\ locks = [p \in Procs |-> <<>>]
  /\ li = [p \in Procs |-> 1]
  /\ lret = [p \in Procs |-> "none"]
  /\ lpre = [p \in Procs |-> {}]
  /\ holds = [p \in Procs |-> {}]
  /\ misuse = FALSE

\* A procedure calls TryLock(S).
TryLockCall(p, S) ==
  /\ lpc[p] = "idle"
  /\ lpc' = [lpc EXCEPT ![p] = "tl_lock"]
  /\ locks' = [locks EXCEPT ![p] = S]
  /\ UNCHANGED <<lock, entryLocks, li, lret, lpre, holds, misuse, notLock>>

\* l.lock.Lock() of TryLock: blocks until the mutex is free.
TryLockAcquire(p) ==
  /\ lpc[p] = "tl_lock"
  /\ lock = "free"
  /\ lock' = p
  /\ lpre' = [lpre EXCEPT ![p] = entryLocks]
  /\ li' = [li EXCEPT ![p] = 1]
  /\ lpc' = [lpc EXCEPT ![p] = "tl_check"]
  /\ UNCHANGED <<entryLocks, locks, lret, holds, misuse, notLock>>

\* A TryLock whose first loop finds nothing: every list passes the check.
TryLockCheckSkipped(p) ==
  /\ lpc[p] = "tl_check"
  /\ li' = [li EXCEPT ![p] = 1]
  /\ lpc' = [lpc EXCEPT ![p] = "tl_add"]
  /\ UNCHANGED <<lock, entryLocks, locks, lret, lpre, holds, misuse, notLock>>

\* A TryLock with one loop that checks an entry and inserts it at once.
TryLockCheckAndAdd(p) ==
  /\ lpc[p] = "tl_check"
  /\ IF li[p] > Len(locks[p])
       THEN /\ li' = [li EXCEPT ![p] = 1]
            /\ lpc' = [lpc EXCEPT ![p] = "tl_add"]
            /\ UNCHANGED <<lret, entryLocks>>
       ELSE IF locks[p][li[p]] \in entryLocks
              THEN /\ lret' = [lret EXCEPT ![p] = "false"]
                   /\ lpc' = [lpc EXCEPT ![p] = "tl_unlock"]
                   /\ UNCHANGED <<li, entryLocks>>
              ELSE /\ entryLocks' = entryLocks \cup {locks[p][li[p]]}
                   /\ li' = [li EXCEPT ![p] = li[p] + 1]
                   /\ UNCHANGED <<lpc, lret>>
  /\ UNCHANGED <<lock, locks, lpre, holds, misuse, notLock>>

\* A TryLock that refuses the empty list.
TryLockCheckNonEmpty(p) ==
  /\ lpc[p] = "tl_check"
  /\ IF Len(locks[p]) = 0 \/ (li[p] <= Len(locks[p]) /\ locks[p][li[p]] \in entryLocks)
       THEN /\ lret' = [lret EXCEPT ![p] = "false"]
            /\ lpc' = [lpc EXCEPT ![p] = "tl_unlock"]
            /\ UNCHANGED li
       ELSE IF li[p] > Len(locks[p])
              THEN /\ li' = [li EXCEPT ![p] = 1]
                   /\ lpc' = [lpc EXCEPT ![p] = "tl_add"]
                   /\ UNCHANGED lret
              ELSE /\ li' = [li EXCEPT ![p] = li[p] + 1]
                   /\ UNCHANGED <<lpc, lret>>
  /\ UNCHANGED <<lock, entryLocks, locks, lpre, holds, misuse, notLock>>

\* One iteration of the first loop of TryLock: return false on an entry that exists.
TryLockCheck(p) ==
  /\ lpc[p] = "tl_check"
  /\ IF li[p] > Len(locks[p])
       THEN /\ li' = [li EXCEPT ![p] = 1]
            /\ lpc' = [lpc EXCEPT ![p] = "tl_add"]
            /\ UNCHANGED lret
       ELSE IF locks[p][li[p]] \in entryLocks
              THEN /\ lret' = [lret EXCEPT ![p] = "false"]
                   /\ lpc' = [lpc EXCEPT ![p] = "tl_unlock"]
                   /\ UNCHANGED li
              ELSE /\ li' = [li EXCEPT ![p] = li[p] + 1]
                   /\ UNCHANGED <<lpc, lret>>
  /\ UNCHANGED <<lock, entryLocks, locks, lpre, holds, misuse, notLock>>

\* One iteration of the second loop of TryLock: insert the entry; return true at the end.
TryLockAdd(p) ==
  /\ lpc[p] = "tl_add"
  /\ IF li[p] > Len(locks[p])
       THEN /\ lret' = [lret EXCEPT ![p] = "true"]
            /\ lpc' = [lpc EXCEPT ![p] = "tl_unlock"]
            /\ UNCHANGED <<li, entryLocks>>
       ELSE /\ entryLocks' = entryLocks \cup {locks[p][li[p]]}
            /\ li' = [li EXCEPT ![p] = li[p] + 1]
            /\ UNCHANGED <<lpc, lret>>
  /\ UNCHANGED <<lock, locks, lpre, holds, misuse, notLock>>

\* The deferred l.lock.Unlock() of TryLock, and the return to the caller.
TryLockReturn(p) ==
  /\ lpc[p] = "tl_unlock"
  /\ lock' = "free"
  /\ holds' = [holds EXCEPT ![p] =
                 IF lret[p] = "true" THEN holds[p] \cup Range(locks[p]) ELSE holds[p]]
  /\ lpc' = [lpc EXCEPT ![p] = "idle"]
  /\ locks' = [locks EXCEPT ![p] = <<>>]
  /\ li' = [li EXCEPT ![p] = 1]
  /\ lret' = [lret EXCEPT ![p] = "none"]
  /\ lpre' = [lpre EXCEPT ![p] = {}]
  /\ UNCHANGED <<entryLocks, misuse, notLock>>

\* A procedure calls UnLock(S).
UnLockCall(p, S) ==
  /\ lpc[p] = "idle"
  /\ lpc' = [lpc EXCEPT ![p] = "ul_lock"]
  /\ locks' = [locks EXCEPT ![p] = S]
  /\ misuse' = (misuse \/ ~(Range(S) \subseteq holds[p]))
  /\ UNCHANGED <<lock, entryLocks, li, lret, lpre, holds, notLock>>

\* l.lock.Lock() of UnLock.
UnLockAcquire(p) ==
  /\ lpc[p] = "ul_lock"
  /\ lock = "free"
  /\ lock' = p
  /\ lpre' = [lpre EXCEPT ![p] = entryLocks]
  /\ li' = [li EXCEPT ![p] = 1]
  /\ lpc' = [lpc EXCEPT ![p] = "ul_check"]
  /\ UNCHANGED <<entryLocks, locks, lret, holds, misuse, notLock>>

\* An UnLock with one loop that deletes an entry as soon as it has found it.
UnLockCheckAndDelete(p) ==
  /\ lpc[p] = "ul_check"
  /\ IF li[p] > Len(locks[p])
       THEN /\ li' = [li EXCEPT ![p] = 1]
            /\ lpc' = [lpc EXCEPT ![p] = "ul_del"]
            /\ UNCHANGED <<lret, entryLocks>>
       ELSE IF locks[p][li[p]] \notin entryLocks
              THEN /\ lret' = [lret EXCEPT ![p] = "panic"]
                   /\ lpc' = [lpc EXCEPT ![p] = "ul_unlock"]
                   /\ UNCHANGED <<li, entryLocks>>
              ELSE /\ entryLocks' = entryLocks \ {locks[p][li[p]]}
                   /\ li' = [li EXCEPT ![p] = li[p] + 1]
                   /\ UNCHANGED <<lpc, lret>>
  /\ UNCHANGED <<lock, locks, lpre, holds, misuse, notLock>>

\* One iteration of the first loop of UnLock: panic on an entry that does not exist.
UnLockCheck(p) ==
  /\ lpc[p] = "ul_check"
  /\ IF li[p] > Len(locks[p])
       THEN /\ li' = [li EXCEPT ![p] = 1]
            /\ lpc' = [lpc EXCEPT ![p] = "ul_del"]
            /\ UNCHANGED lret
       ELSE IF locks[p][li[p]] \notin entryLocks
              THEN /\ lret' = [lret EXCEPT ![p] = "panic"]
                   /\ lpc' = [lpc EXCEPT ![p] = "ul_unlock"]
                   /\ UNCHANGED li
              ELSE /\ li' = [li EXCEPT ![p] = li[p] + 1]
                   /\ UNCHANGED <<lpc, lret>>
  /\ UNCHANGED <<lock, entryLocks, locks, lpre, holds, misuse, notLock>>

\* One iteration of the second loop of UnLock: delete the entry.
UnLockDelete(p) ==
  /\ lpc[p] = "ul_del"
  /\ IF li[p] > Len(locks[p])
       THEN /\ lret' = [lret EXCEPT ![p] = "ok"]
            /\ lpc' = [lpc EXCEPT ![p] = "ul_unlock"]
            /\ UNCHANGED <<li, entryLocks>>
       ELSE /\ entryLocks' = entryLocks \ {locks[p][li[p]]}
            /\ li' = [li EXCEPT ![p] = li[p] + 1]
            /\ UNCHANGED <<lpc, lret>>
  /\ UNCHANGED <<lock, locks, lpre, holds, misuse, notLock>>

\* The deferred l.lock.Unlock() of UnLock; it also runs while a panic unwinds,
\* and the panicking goroutine does not come back to its caller.
UnLockReturn(p) ==
  /\ lpc[p] = "ul_unlock"
  /\ lock' = "free"
  /\ holds' = [holds EXCEPT ![p] =
                 IF lret[p] = "ok" THEN holds[p] \ Range(locks[p]) ELSE holds[p]]
  /\ IF lret[p] = "panic"
       THEN /\ lpc' = [lpc EXCEPT ![p] = "panicked"]
            /\ UNCHANGED <<locks, li, lret, lpre>>
       ELSE /\ lpc' = [lpc EXCEPT ![p] = "idle"]
            /\ locks' = [locks EXCEPT ![p] = <<>>]
            /\ li' = [li EXCEPT ![p] = 1]
            /\ lret' = [lret EXCEPT ![p] = "none"]
            /\ lpre' = [lpre EXCEPT ![p] = {}]
  /\ UNCHANGED <<entryLocks, misuse, notLock>>

NextLock ==
  \/ \E p \in Procs, S \in LockLists : TryLockCall(p, S)
  \/ \E p \in Procs : TryLockAcquire(p)
  \/ \E p \in Procs : TryLockCheck(p)
  \/ \E p \in Procs : TryLockAdd(p)
  \/ \E p \in Procs : TryLockReturn(p)
  \/ \E p \in Procs, S \in LockLists : UnLockCall(p, S)
  \/ \E p \in Procs : UnLockAcquire(p)
  \/ \E p \in Procs : UnLockCheck(p)
  \/ \E p \in Procs : UnLockDelete(p)
  \/ \E p \in Procs : UnLockReturn(p)

(***************************************************************************)
(* Membership: what Handler.GetLeader answers                              *)
(***************************************************************************)

\* How often the leadership moves during a run.
MaxLeaderChanges == 1

\* Endpoints of the other coordinator instances.
Endpoints == {"m1", "m2"}

\* "local": this instance is the leader (GetLeaderResp.IsLocal).
Leaders == {"local"} \cup Endpoints

InitMember ==
  /\ leader \in Leaders
  /\ nchanges = 0
  /\ conns = [e \in Endpoints |-> 0]
  /\ dialed = 0

\* The leader lease moves to another instance.
LeaderChange ==
  /\ nchanges < MaxLeaderChanges
  /\ nchanges' = nchanges + 1
  /\ \E l \in Leaders \ {leader} : leader' = l
  /\ UNCHANGED <<conns, dialed>>

\* getForwardedAddr: (LeaderEndpoint, IsLocal) of a successful GetLeader.
getForwardedAddr == IF leader = "local" THEN "" ELSE leader

(***************************************************************************)
(* Service.NodeHeartbeat: the bidirectional heartbeat stream               *)
(***************************************************************************)

\* Frames a data node sends on one stream before it closes it.
MaxFrames == 2

\* The heartbeat streams (one handler goroutine each).
Streams == {"s1", "s2"}

\* The node names carried in NodeHeartbeatRequest.Info.Node.
Nodes == {"n1", "n2"}

NoReq == [idx |-> 0, node |-> "none"]

InitHB ==
  /\ senders = [n \in Nodes |-> "none"]
  /\ hb = [s \in Streams |->
            [pc |-> "recv", req |-> NoReq, nrecv |-> 0,
             bound |-> FALSE, node |-> "",
             ctxCancelled |-> FALSE,
             stream |-> 0, addr |-> "", cancel |-> 0, errCh |-> <<>>,
             fwd |-> <<>>,
             inflight |-> {}, procLog |-> <<>>, bindLog |-> <<>>, unbindLog |-> <<>>,
             sent |-> {}, failed |-> {}, exitCause |-> "none"]]

\* The errors of the forwarding block of NodeHeartbeat: GetLeader, reconnect,
\* f.stream.Send and the error the pump goroutine has put on errCh.
ForwardingErrors == {"getLeader", "reconnect", "send", "errCh"}

\* Outcomes of a Handler call made under a context with the opTimeout deadline.
OpResults == {"ok", "err", "timeout"}

\* heartbeatSrv.Recv(): the next frame, io.EOF or an error.
HBRecv(s) ==
  /\ hb[s].pc = "recv"
  /\ \/ /\ hb[s].nrecv < MaxFrames
        /\ \E n \in Nodes :
             hb' = [hb EXCEPT ![s].req = [idx |-> hb[s].nrecv + 1, node |-> n],
                              ![s].nrecv = hb[s].nrecv + 1,
                              ![s].pc = "init"]
     \/ hb' = [hb EXCEPT ![s].pc = "unbind", ![s].exitCause = "eof", ![s].req = NoReq]
     \/ hb' = [hb EXCEPT ![s].pc = "unbind", ![s].exitCause = "recv", ![s].req = NoReq]
  /\ UNCHANGED <<senders, memberVars, notHB>>

\* forwarder.needReconnect
needReconnect(s, addr) == hb[s].stream = 0 \/ addr # hb[s].addr

\* The forwarded streams of s after f.cancel() has been called.
CancelPrevious(s) ==
  IF hb[s].cancel > 0
    THEN [hb[s].fwd EXCEPT ![hb[s].cancel].state = IF @ = "open" THEN "cancelled" ELSE @]
    ELSE hb[s].fwd

\* f.maybeInitForwardedStream(ctx): GetLeader fails and the handler returns the error.
HBInitFail(s) ==
  /\ hb[s].pc = "init"
  /\ hb' = [hb EXCEPT ![s].pc = "unbind", ![s].exitCause = "getLeader", ![s].req = NoReq]
  /\ UNCHANGED <<senders, memberVars, notHB>>

\* f.maybeInitForwardedStream(ctx): no reconnect is needed.
HBInitKeep(s) ==
  /\ hb[s].pc = "init"
  /\ ~needReconnect(s, getForwardedAddr)
  /\ hb' = [hb EXCEPT ![s].pc = "send"]
  /\ UNCHANGED <<senders, memberVars, notHB>>

\* f.maybeInitForwardedStream(ctx): needReconnect and isLocal, nothing is opened.
HBInitLocal(s) ==
  /\ hb[s].pc = "init"
  /\ needReconnect(s, getForwardedAddr)
  /\ leader = "local"
  /\ hb' = [hb EXCEPT ![s].pc = "send", ![s].fwd = CancelPrevious(s)]
  /\ UNCHANGED <<senders, memberVars, notHB>>

\* f.reconnect(addr): there is no stored connection and the dial fails.
HBReconnectDialFail(s) ==
  /\ hb[s].pc = "init"
  /\ needReconnect(s, getForwardedAddr)
  /\ leader # "local"
  /\ conns[leader] = 0
  /\ hb' = [hb EXCEPT ![s].pc = "unbind", ![s].exitCause = "reconnect",
                      ![s].req = NoReq, ![s].fwd = CancelPrevious(s)]
  /\ UNCHANGED <<senders, memberVars, notHB>>

\* f.reconnect(addr): createHeartbeatForwardedStream fails; cancel() is called.
HBReconnectStreamFail(s) ==
  /\ hb[s].pc = "init"
  /\ needReconnect(s, getForwardedAddr)
  /\ leader # "local"
  /\ conns' = [conns EXCEPT ![leader] = IF @ = 0 THEN dialed + 1 ELSE @]
  /\ dialed' = IF conns[leader] = 0 THEN dialed + 1 ELSE dialed
  /\ hb' = [hb EXCEPT ![s].pc = "unbind", ![s].exitCause = "reconnect",
                      ![s].req = NoReq, ![s].fwd = CancelPrevious(s),
                      ![s].cancel = -1, ![s].stream = 0]
  /\ UNCHANGED <<senders, leader, nchanges, notHB>>

\* f.reconnect(addr): a new forwarded stream, under a context of its own, and its
\* pump goroutine; f.addr is not assigned.
HBReconnect(s) ==
  /\ hb[s].pc = "init"
  /\ needReconnect(s, getForwardedAddr)
  /\ leader # "local"
  /\ conns' = [conns EXCEPT ![leader] = IF @ = 0 THEN dialed + 1 ELSE @]
  /\ dialed' = IF conns[leader] = 0 THEN dialed + 1 ELSE dialed
  /\ hb' = [hb EXCEPT ![s].pc = "send",
                      ![s].fwd = Append(CancelPrevious(s),
                                        [addr |-> leader, state |-> "open", pump |-> "running"]),
                      ![s].cancel = Len(hb[s].fwd) + 1,
                      ![s].stream = Len(hb[s].fwd) + 1]
  /\ UNCHANGED <<senders, leader, nchanges, notHB>>

\* if f.stream != nil is false: the frame is handled by this instance.
HBHandleLocally(s) ==
  /\ hb[s].pc = "send"
  /\ hb[s].stream = 0
  /\ hb' = [hb EXCEPT ![s].pc = "bind"]
  /\ UNCHANGED <<senders, memberVars, notHB>>

\* f.stream.Send(req): the frame goes to the leader, or the send fails.
HBSend(s) ==
  /\ hb[s].pc = "send"
  /\ hb[s].stream # 0
  /\ \/ /\ hb[s].fwd[hb[s].stream].state # "cancelled"
        /\ hb' = [hb EXCEPT ![s].pc = "select",
                            ![s].sent = @ \cup {<<hb[s].req.idx, hb[s].stream>>}]
     \/ hb' = [hb EXCEPT ![s].pc = "unbind", ![s].exitCause = "send", ![s].req = NoReq]
  /\ UNCHANGED <<senders, memberVars, notHB>>

\* select { case err = <-f.errCh: return err; default: }; continue
HBSelect(s) ==
  /\ hb[s].pc = "select"
  /\ IF hb[s].errCh # <<>>
       THEN hb' = [hb EXCEPT ![s].pc = "unbind", ![s].exitCause = "errCh",
                             ![s].req = NoReq, ![s].errCh = Tail(@)]
       ELSE hb' = [hb EXCEPT ![s].pc = "recv"]
  /\ UNCHANGED <<senders, memberVars, notHB>>

\* A bindIfNot that has lost its `if b.bound` test.
HBBindAlways(s) ==
  /\ hb[s].pc = "bind"
  /\ \E r \in OpResults :
       /\ hb' = [hb EXCEPT ![s].pc = "process",
                        ![s].bindLog = Append(@, [frame |-> hb[s].req.idx, node |-> hb[s].req.node,
                                                  sender |-> s, ok |-> (r = "ok")]),
                        ![s].bound = (@ \/ r = "ok"),
                        ![s].node = IF r = "ok" THEN hb[s].req.node ELSE @,
                        ![s].failed = IF r = "ok" THEN @ ELSE @ \cup {hb[s].req.idx}]
       /\ senders' = IF r = "ok" THEN [senders EXCEPT ![hb[s].req.node] = s] ELSE senders
  /\ UNCHANGED <<memberVars, notHB>>

\* binder.bindIfNot(ctx, req.Info.Node); an error is logged only.  A successful
\* BindHeartbeatStream puts the stream in the place of the node's sender.
HBBind(s) ==
  /\ hb[s].pc = "bind"
  /\ IF hb[s].bound
       THEN hb' = [hb EXCEPT ![s].pc = "process"] /\ UNCHANGED senders
       ELSE \E r \in OpResults :
            /\ senders' = IF r = "ok" THEN [senders EXCEPT ![hb[s].req.node] = s] ELSE senders
            /\ hb' = [hb EXCEPT ![s].pc = "process",
                               ![s].bindLog = Append(@, [frame |-> hb[s].req.idx,
                                                         node |-> hb[s].req.node,
                                                         sender |-> s, ok |-> (r = "ok")]),
                               ![s].bound = (r = "ok"),
                               ![s].node = IF r = "ok" THEN hb[s].req.node ELSE @,
                               ![s].failed = IF r = "ok" THEN @ ELSE @ \cup {hb[s].req.idx}]
  /\ UNCHANGED <<memberVars, notHB>>

\* A handler that starts ProcessHeartbeat in a goroutine of its own and goes on.
HBProcessCallAsync(s) ==
  /\ hb[s].pc = "process"
  /\ hb' = [hb EXCEPT ![s].pc = "recv",
                      ![s].inflight = @ \cup {hb[s].req.idx},
                      ![s].procLog = Append(@, hb[s].req)]
  /\ UNCHANGED <<senders, memberVars, notHB>>

\* s.h.ProcessHeartbeat(ctx1, req) is called.
HBProcessCall(s) ==
  /\ hb[s].pc = "process"
  /\ hb' = [hb EXCEPT ![s].pc = "processing",
                      ![s].inflight = @ \cup {hb[s].req.idx},
                      ![s].procLog = Append(@, hb[s].req)]
  /\ UNCHANGED <<senders, memberVars, notHB>>

\* A handler that gives up the stream when ProcessHeartbeat fails.
HBProcessReturnStrict(s) ==
  /\ \E k \in hb[s].inflight, r \in OpResults :
       hb' = [hb EXCEPT ![s].pc = IF r = "ok" THEN "recv" ELSE "unbind",
                        ![s].exitCause = IF r = "ok" THEN @ ELSE "process",
                        ![s].inflight = @ \ {k},
                        ![s].failed = IF r = "ok" THEN @ ELSE @ \cup {k}]
  /\ UNCHANGED <<senders, memberVars, notHB>>

\* ProcessHeartbeat returns; an error is logged only and the loop goes on.
HBProcessReturn(s) ==
  /\ \E k \in hb[s].inflight, r \in OpResults :
       hb' = [hb EXCEPT ![s].pc = IF @ = "processing" THEN "recv" ELSE @,
                        ![s].inflight = @ \ {k},
                        ![s].failed = IF r = "ok" THEN @ ELSE @ \cup {k}]
  /\ UNCHANGED <<senders, memberVars, notHB>>

\* An unbind that has lost its `if !b.bound` test.
HBUnbindAlways(s) ==
  /\ hb[s].pc = "unbind"
  /\ hb' = [hb EXCEPT ![s].pc = "cancel",
                      ![s].unbindLog = Append(@, [node |-> hb[s].node,
                                                  ctxCancelled |-> hb[s].ctxCancelled])]
  /\ senders' = [n \in Nodes |-> IF n = hb[s].node THEN "none" ELSE senders[n]]
  /\ UNCHANGED <<memberVars, notHB>>

\* The deferred binder.unbind(ctx): it runs first, the defers being run last-in first-out.
\* UnbindHeartbeatStream(ctx, b.node) is given the node's name only: the node's
\* sender is removed, whichever stream it is.
HBUnbind(s) ==
  /\ hb[s].pc = "unbind"
  /\ IF hb[s].bound
       THEN /\ hb' = [hb EXCEPT ![s].pc = "cancel",
                                ![s].unbindLog = Append(@, [node |-> hb[s].node,
                                                            ctxCancelled |-> hb[s].ctxCancelled])]
            /\ senders' = [senders EXCEPT ![hb[s].node] = "none"]
       ELSE hb' = [hb EXCEPT ![s].pc = "cancel"] /\ UNCHANGED senders
  /\ UNCHANGED <<memberVars, notHB>>

\* The deferred cancel() of the handler's ctx; NodeHeartbeat has returned after it.
HBCancel(s) ==
  /\ hb[s].pc = "cancel"
  /\ hb' = [hb EXCEPT ![s].pc = "done", ![s].ctxCancelled = TRUE]
  /\ UNCHANGED <<senders, memberVars, notHB>>

\* errCh <- err in the pump goroutine: it blocks while the channel is full.
PumpFail(s, i) ==
  /\ Len(hb[s].errCh) < 1
  /\ hb' = [hb EXCEPT ![s].errCh = Append(@, "ErrForward"),
                      ![s].fwd[i].pump = "exited"]

\* forwardRegionHeartbeatRespToClient: Recv on the forwarded stream fails once the
\* stream has been cancelled or the leader has ended it.
PumpRecvFail(s, i) ==
  /\ i \in DOMAIN hb[s].fwd
  /\ hb[s].fwd[i].pump = "running"
  /\ hb[s].fwd[i].state # "open"
  /\ PumpFail(s, i)
  /\ UNCHANGED <<senders, memberVars, notHB>>

\* forwardRegionHeartbeatRespToClient: the leader has sent a response and relaying
\* it fails, the inbound handler having returned.
PumpSendFail(s, i) ==
  /\ i \in DOMAIN hb[s].fwd
  /\ hb[s].fwd[i].pump = "running"
  /\ hb[s].fwd[i].state = "open"
  /\ hb[s].pc = "done"
  /\ PumpFail(s, i)
  /\ UNCHANGED <<senders, memberVars, notHB>>

\* The leader ends a forwarded stream (it returns, fails or goes away).
LeaderCloses(s, i) ==
  /\ i \in DOMAIN hb[s].fwd
  /\ hb[s].fwd[i].state = "open"
  /\ hb' = [hb EXCEPT ![s].fwd[i].state = "closed"]
  /\ UNCHANGED <<senders, memberVars, notHB>>

HBLeaderChange ==
  /\ LeaderChange
  /\ UNCHANGED <<hbVars, notHB>>

\* The streams of the specification with a single stream.
SoloStreams == {"s1"}

NextHB ==
  \/ \E s \in SoloStreams : HBRecv(s)
  \/ \E s \in SoloStreams : HBInitFail(s)
  \/ \E s \in SoloStreams : HBInitKeep(s)
  \/ \E s \in SoloStreams : HBInitLocal(s)
  \/ \E s \in SoloStreams : HBReconnectDialFail(s)
  \/ \E s \in SoloStreams : HBReconnectStreamFail(s)
  \/ \E s \in SoloStreams : HBReconnect(s)
  \/ \E s \in SoloStreams : HBHandleLocally(s)
  \/ \E s \in SoloStreams : HBSend(s)
  \/ \E s \in SoloStreams : HBSelect(s)
  \/ \E s \in SoloStreams : HBBind(s)
  \/ \E s \in SoloStreams : HBProcessCall(s)
  \/ \E s \in SoloStreams : HBProcessReturn(s)
  \/ \E s \in SoloStreams : HBUnbind(s)
  \/ \E s \in SoloStreams : HBCancel(s)
  \/ \E s \in SoloStreams, i \in 1..MaxFrames : PumpRecvFail(s, i)
  \/ \E s \in SoloStreams, i \in 1..MaxFrames : PumpSendFail(s, i)
  \/ \E s \in SoloStreams, i \in 1..MaxFrames : LeaderCloses(s, i)
  \/ HBLeaderChange

\* The steps of concurrent streams on an instance that is and stays the leader.
NextHBLeader ==
  \/ \E s \in Streams : HBRecv(s)
  \/ \E s \in Streams : HBInitFail(s)
  \/ \E s \in Streams : HBInitLocal(s)
  \/ \E s \in Streams : HBHandleLocally(s)
  \/ \E s \in Streams : HBBind(s)
  \/ \E s \in Streams : HBProcessCall(s)
  \/ \E s \in Streams : HBProcessReturn(s)
  \/ \E s \in Streams : HBUnbind(s)
  \/ \E s \in Streams : HBCancel(s)

(***************************************************************************)
(* Unary gRPC handlers: AllocSchemaID, AllocTableID, GetTables, ...        *)
(***************************************************************************)

\* The unary handlers that forward to the leader.
ForwardingMethods ==
  {"AllocSchemaID", "AllocTableID", "GetTables", "GetTablesOfShards",
   "DropTable", "RouteTables", "GetNodes"}

\* The handlers whose body is "TODO: impl later".
StubMethods == {"CreateTable", "DropTable"}

\* Requests in flight at the same time.
Reqs == {"r1", "r2"}

\* What the leader can answer to a forwarded call: a response with an ok
\* header, a response with an error header, or a gRPC error.
LeaderAnswers == {"leader_ok", "leader_errhdr", "leader_rpcerr"}

InitRpc ==
  rpc = [r \in Reqs |->
           [pc |-> "idle", method |-> "none", stub |-> FALSE, leaderAt |-> "none",
            seen |-> "none", cc |-> 0, fwdTo |-> "none", answer |-> "none",
            local |-> 0, resp |-> "none"]]

\* A client calls one of the forwarding handlers.
RpcCall(r, m) ==
  /\ rpc[r].pc = "idle"
  /\ rpc' = [rpc EXCEPT ![r].pc = "getLeader", ![r].method = m]
  /\ UNCHANGED <<memberVars, notRpc>>

\* A client calls a handler that is not implemented: return nil, nil.
RpcCallStub(r, m) ==
  /\ rpc[r].pc = "idle"
  /\ rpc' = [rpc EXCEPT ![r].pc = "done", ![r].method = m, ![r].stub = TRUE,
                        ![r].leaderAt = leader, ![r].resp = "nil"]
  /\ UNCHANGED <<memberVars, notRpc>>

\* getForwardedAddr: GetLeader fails and the handler returns an error header.
RpcGetLeaderFail(r) ==
  /\ rpc[r].pc = "getLeader"
  /\ rpc' = [rpc EXCEPT ![r].pc = "done", ![r].leaderAt = leader,
                        ![r].seen = "fail", ![r].resp = "errhdr"]
  /\ UNCHANGED <<memberVars, notRpc>>

\* Mutant of RpcGetLeader: the forwarded address is ignored.
RpcGetLeaderIgnoreAddr(r) ==
  /\ rpc[r].pc = "getLeader"
  /\ rpc' = [rpc EXCEPT ![r].pc = "local", ![r].leaderAt = leader,
                        ![r].seen = IF leader = "local" THEN "local" ELSE leader]
  /\ UNCHANGED <<memberVars, notRpc>>

\* getForwardedAddr succeeds: "" on the leader, the leader's endpoint otherwise.
RpcGetLeader(r) ==
  /\ rpc[r].pc = "getLeader"
  /\ rpc' = [rpc EXCEPT ![r].pc = IF getForwardedAddr = "" THEN "local" ELSE "load",
                        ![r].leaderAt = leader,
                        ![r].seen = IF leader = "local" THEN "local" ELSE leader]
  /\ UNCHANGED <<memberVars, notRpc>>

\* getForwardedGrpcClient: s.conns.Load(forwardedAddr).
RpcLoad(r) ==
  /\ rpc[r].pc = "load"
  /\ rpc' = [rpc EXCEPT ![r].pc = IF conns[rpc[r].seen] # 0 THEN "forward" ELSE "dial",
                        ![r].cc = conns[rpc[r].seen]]
  /\ UNCHANGED <<memberVars, notRpc>>

\* service.GetClientConn fails: the handler returns an error header.
RpcDialFail(r) ==
  /\ rpc[r].pc = "dial"
  /\ rpc' = [rpc EXCEPT ![r].pc = "done", ![r].resp = "errhdr"]
  /\ UNCHANGED <<memberVars, notRpc>>

\* service.GetClientConn creates a connection.
RpcDial(r) ==
  /\ rpc[r].pc = "dial"
  /\ dialed' = dialed + 1
  /\ rpc' = [rpc EXCEPT ![r].pc = "store", ![r].cc = dialed + 1]
  /\ UNCHANGED <<leader, nchanges, conns, notRpc>>

\* s.conns.Store(forwardedAddr, cc).
RpcStore(r) ==
  /\ rpc[r].pc = "store"
  /\ conns' = [conns EXCEPT ![rpc[r].seen] = rpc[r].cc]
  /\ rpc' = [rpc EXCEPT ![r].pc = "forward"]
  /\ UNCHANGED <<leader, nchanges, dialed, notRpc>>

\* return ceresmetaClient.X(ctx, req): the answer of the peer is the result.
RpcForward(r) ==
  /\ rpc[r].pc = "forward"
  /\ \E a \in LeaderAnswers :
       rpc' = [rpc EXCEPT ![r].pc = "done", ![r].fwdTo = rpc[r].seen,
                          ![r].answer = a, ![r].resp = a]
  /\ UNCHANGED <<memberVars, notRpc>>

\* s.h.GetClusterManager().X(...) and the response built from its result.
RpcLocal(r) ==
  /\ rpc[r].pc = "local"
  /\ \E res \in {"local_ok", "errhdr"} :
       rpc' = [rpc EXCEPT ![r].pc = "done", ![r].local = @ + 1, ![r].resp = res]
  /\ UNCHANGED <<memberVars, notRpc>>

RpcLeaderChange ==
  /\ LeaderChange
  /\ UNCHANGED <<rpcVars, notRpc>>

NextRpc ==
  \/ \E r \in Reqs, m \in ForwardingMethods : RpcCall(r, m)
  \/ \E r \in Reqs, m \in StubMethods : RpcCallStub(r, m)
  \/ \E r \in Reqs : RpcGetLeaderFail(r)
  \/ \E r \in Reqs : RpcGetLeader(r)
  \/ \E r \in Reqs : RpcLoad(r)
  \/ \E r \in Reqs : RpcDialFail(r)
  \/ \E r \in Reqs : RpcDial(r)
  \/ \E r \in Reqs : RpcStore(r)
  \/ \E r \in Reqs : RpcForward(r)
  \/ \E r \in Reqs : RpcLocal(r)
  \/ RpcLeaderChange

(***************************************************************************)
(* HTTP API: printRequestInfo, wrap, respond, respondError, respondForward *)
(***************************************************************************)

\* Endpoints registered by NewAPIRouter with needForward = true.
ForwardedRoutes ==
  {"POST /getShardTables", "POST /transferLeader", "POST /split", "POST /route",
   "DELETE /table", "POST /getNodeShards", "GET /flowLimiter", "PUT /flowLimiter",
   "GET /clusters", "POST /clusters", "PUT /clusters/:name",
   "GET /clusters/:name/procedure", "GET /clusters/:name/shardAffinities",
   "POST /clusters/:name/shardAffinities", "DELETE /clusters/:name/shardAffinities",
   "POST /table/query", "GET /debug/diagnose/:name/shards",
   "GET /debug/clusters/:name/enableSchedule",
   "PUT /debug/clusters/:name/enableSchedule"}

\* Endpoints registered by NewAPIRouter with needForward = false.
LocalRoutes ==
  {"GET /health", "GET /debug/leader", "POST /etcd/promoteLearner",
   "PUT /etcd/member", "GET /etcd/member", "POST /etcd/member",
   "DELETE /etcd/member", "POST /etcd/moveLeader"}

Routes == ForwardedRoutes \cup LocalRoutes

needForward(route) == route \in ForwardedRoutes

WebReqs == {"q1"}

NoResponse == [status |-> 0, header |-> "none", body |-> "none"]

\* The responses the leader can give to a forwarded request.
LeaderResponses ==
  [status : {200, 500}, header : {"leader headers"}, body : {"leader body", "leader error"}]

\* http.Error(w, err.Error(), http.StatusInternalServerError)
httpError == [status |-> 500, header |-> "text/plain", body |-> "err.Error()"]

\* respondError(w, apiErr, msg)
respondError(code, apiErr) ==
  [status |-> code, header |-> "application/json", body |-> apiErr]

\* respond(w, data) when the data can be marshalled
respond == [status |-> 200, header |-> "application/json", body |-> "data"]

\* respondForward(w, response) when the body of the response can be read
respondForward(response) ==
  [status |-> response.status, header |-> response.header, body |-> response.body]

InitWeb ==
  web = [q \in WebReqs |->
           [pc |-> "idle", route |-> "none", leaderAt |-> "none", fwd |-> "none",
            answer |-> NoResponse, written |-> <<>>, ran |-> 0]]

\* A request for a registered endpoint reaches the router.
WebArrive(q, route) ==
  /\ web[q].pc = "idle"
  /\ web' = [web EXCEPT ![q].pc = "instr", ![q].route = route, ![q].leaderAt = leader]
  /\ UNCHANGED <<memberVars, notWeb>>

\* printRequestInfo: the request body cannot be read, return.
WebInstrReadFail(q) ==
  /\ web[q].pc = "instr"
  /\ web' = [web EXCEPT ![q].pc = "done"]
  /\ UNCHANGED <<memberVars, notWeb>>

\* printRequestInfo: log the request and call the wrapped handler.
WebInstr(q) ==
  /\ web[q].pc = "instr"
  /\ web' = [web EXCEPT ![q].pc = IF needForward(web[q].route) THEN "forward" ELSE "handler"]
  /\ UNCHANGED <<memberVars, notWeb>>

\* wrap: forwardToLeader fails, respondError(w, ErrForwardToLeader, ...).
WebForwardFail(q) ==
  /\ web[q].pc = "forward"
  /\ web' = [web EXCEPT ![q].pc = "done", ![q].leaderAt = leader, ![q].fwd = "err",
                        ![q].written = Append(@, respondError(500, "ErrForwardToLeader"))]
  /\ UNCHANGED <<memberVars, notWeb>>

\* wrap: forwardToLeader reports that this instance is the leader.
WebForwardIsLeader(q) ==
  /\ web[q].pc = "forward"
  /\ leader = "local"
  /\ web' = [web EXCEPT ![q].pc = "handler", ![q].leaderAt = leader, ![q].fwd = "isLeader"]
  /\ UNCHANGED <<memberVars, notWeb>>

\* wrap: forwardToLeader returns the response of the leader.
WebForward(q) ==
  /\ web[q].pc = "forward"
  /\ leader # "local"
  /\ \E a \in LeaderResponses :
       web' = [web EXCEPT ![q].pc = "respondForward", ![q].leaderAt = leader,
                          ![q].fwd = "resp", ![q].answer = a]
  /\ UNCHANGED <<memberVars, notWeb>>

\* respondForward: the body of the leader's response cannot be read.
WebRespondForwardReadFail(q) ==
  /\ web[q].pc = "respondForward"
  /\ web' = [web EXCEPT ![q].pc = "done", ![q].written = Append(@, httpError)]
  /\ UNCHANGED <<memberVars, notWeb>>

\* Mutant of WebRespondForward: wrap does not return after respondForward.
WebRespondForwardFallThrough(q) ==
  /\ web[q].pc = "respondForward"
  /\ web' = [web EXCEPT ![q].pc = "handler",
                        ![q].written = Append(@, respondForward(web[q].answer))]
  /\ UNCHANGED <<memberVars, notWeb>>

\* respondForward: copy headers, status code and body; wrap returns.
WebRespondForward(q) ==
  /\ web[q].pc = "respondForward"
  /\ web' = [web EXCEPT ![q].pc = "done",
                        ![q].written = Append(@, respondForward(web[q].answer))]
  /\ UNCHANGED <<memberVars, notWeb>>

\* wrap: result := f(r) with result.err != nil, respondError.
WebHandlerError(q) ==
  /\ web[q].pc = "handler"
  /\ \E code \in {400, 500} :
       web' = [web EXCEPT ![q].pc = "done", ![q].ran = @ + 1,
                          ![q].written = Append(@, respondError(code, "result.err"))]
  /\ UNCHANGED <<memberVars, notWeb>>

\* wrap: result := f(r) succeeds, respond(w, result.data); json.Marshal may fail.
WebHandler(q) ==
  /\ web[q].pc = "handler"
  /\ \E out \in {respond, httpError} :
       web' = [web EXCEPT ![q].pc = "done", ![q].ran = @ + 1,
                          ![q].written = Append(@, out)]
  /\ UNCHANGED <<memberVars, notWeb>>

WebLeaderChange ==
  /\ LeaderChange
  /\ UNCHANGED <<webVars, notWeb>>

NextWeb ==
  \/ \E q \in WebReqs, route \in Routes : WebArrive(q, route)
  \/ \E q \in WebReqs : WebInstrReadFail(q)
  \/ \E q \in WebReqs : WebInstr(q)
  \/ \E q \in WebReqs : WebForwardFail(q)
  \/ \E q \in WebReqs : WebForwardIsLeader(q)
  \/ \E q \in WebReqs : WebForward(q)
  \/ \E q \in WebReqs : WebRespondForwardReadFail(q)
  \/ \E q \in WebReqs : WebRespondForward(q)
  \/ \E q \in WebReqs : WebHandlerError(q)
  \/ \E q \in WebReqs : WebHandler(q)
  \/ WebLeaderChange

(***************************************************************************)
(* Event dispatch: DispatchImpl                                            *)
(***************************************************************************)

\* The methods of DispatchImpl.
DispatchOps ==
  {"OpenShard", "CloseShard", "CreateTableOnShard", "DropTableOnShard",
   "OpenTableOnShard", "CloseTableOnShard"}

\* The methods that return resp.GetLatestShardVersion().
VersionOps == {"CreateTableOnShard", "DropTableOnShard"}

\* Addresses of data nodes.
NodeAddrs == {"a1", "a2"}

\* Dispatch calls made, possibly at the same time.
DispatchCalls == {"d1", "d2"}

NoRpc == [kind |-> "none", code |-> 0, error |-> "", version |-> 0]

TransportError == [kind |-> "transport", code |-> 0, error |-> "", version |-> 0]

\* The responses of a data node: header code, header error, LatestShardVersion.
NodeResponses ==
  {[kind |-> "response", code |-> 0, error |-> "", version |-> v] : v \in {1, 2}}
    \cup {[kind |-> "response", code |-> c, error |-> "remote error", version |-> v] :
            c \in {1}, v \in {0, 2}}

NoReturn == [err |-> "none", cause |-> "", version |-> 0]

InitDisp ==
  /\ dconns = [a \in NodeAddrs |-> 0]
  /\ ddialed = 0
  /\ disp = [d \in DispatchCalls |->
               [pc |-> "idle", op |-> "none", addr |-> "none", cc |-> 0, rpcs |-> 0,
                resp |-> NoRpc, ret |-> NoReturn]]

\* A procedure step calls a method of the dispatch.
DispatchCall(d, op, addr) ==
  /\ disp[d].pc = "idle"
  /\ disp' = [disp EXCEPT ![d].pc = "load", ![d].op = op, ![d].addr = addr]
  /\ UNCHANGED <<dconns, ddialed, notDisp>>

\* getGrpcClient: d.conns.Load(addr).
DispatchLoad(d) ==
  /\ disp[d].pc = "load"
  /\ disp' = [disp EXCEPT ![d].pc = IF dconns[disp[d].addr] # 0 THEN "rpc" ELSE "dial",
                          ![d].cc = dconns[disp[d].addr]]
  /\ UNCHANGED <<dconns, ddialed, notDisp>>

\* service.GetClientConn fails: the call returns the error, nothing is stored.
DispatchDialFail(d) ==
  /\ disp[d].pc = "dial"
  /\ disp' = [disp EXCEPT ![d].pc = "done",
                          ![d].ret = [err |-> "dial", cause |-> "", version |-> 0]]
  /\ UNCHANGED <<dconns, ddialed, notDisp>>

\* service.GetClientConn creates a connection.
DispatchDial(d) ==
  /\ disp[d].pc = "dial"
  /\ ddialed' = ddialed + 1
  /\ disp' = [disp EXCEPT ![d].pc = "store", ![d].cc = ddialed + 1]
  /\ UNCHANGED <<dconns, notDisp>>

\* d.conns.Store(addr, cc).
DispatchStore(d) ==
  /\ disp[d].pc = "store"
  /\ dconns' = [dconns EXCEPT ![disp[d].addr] = disp[d].cc]
  /\ disp' = [disp EXCEPT ![d].pc = "rpc"]
  /\ UNCHANGED <<ddialed, notDisp>>

\* What a method returns for the outcome of its RPC.
DispatchResult(op, resp) ==
  IF resp.kind = "transport"
    THEN [err |-> "transport", cause |-> "", version |-> 0]
  ELSE IF resp.code # 0
    THEN [err |-> "ErrDispatch", cause |-> resp.error, version |-> 0]
  ELSE [err |-> "nil", cause |-> "",
        version |-> IF op \in VersionOps THEN resp.version ELSE 0]

\* Mutant of DispatchRpc: a transport error is retried inside the client.
DispatchRpcRetry(d) ==
  /\ disp[d].pc = "rpc"
  /\ \E resp \in {TransportError} \cup NodeResponses :
       disp' = [disp EXCEPT
                  ![d].pc = IF resp.kind = "transport" /\ disp[d].rpcs = 0
                              THEN "rpc" ELSE "done",
                  ![d].rpcs = @ + 1,
                  ![d].resp = resp,
                  ![d].ret = IF resp.kind = "transport" /\ disp[d].rpcs = 0
                               THEN @ ELSE DispatchResult(disp[d].op, resp)]
  /\ UNCHANGED <<dconns, ddialed, notDisp>>

\* client.X(ctx, request) and the translation of its outcome.
DispatchRpc(d) ==
  /\ disp[d].pc = "rpc"
  /\ \E resp \in {TransportError} \cup NodeResponses :
       disp' = [disp EXCEPT ![d].pc = "done", ![d].rpcs = @ + 1, ![d].resp = resp,
                            ![d].ret = DispatchResult(disp[d].op, resp)]
  /\ UNCHANGED <<dconns, ddialed, notDisp>>

NextDisp ==
  \/ \E d \in DispatchCalls, op \in DispatchOps, addr \in NodeAddrs : DispatchCall(d, op, addr)
  \/ \E d \in DispatchCalls : DispatchLoad(d)
  \/ \E d \in DispatchCalls : DispatchDialFail(d)
  \/ \E d \in DispatchCalls : DispatchDial(d)
  \/ \E d \in DispatchCalls : DispatchStore(d)
  \/ \E d \in DispatchCalls : DispatchRpc(d)

(***************************************************************************)
(* KV storage                                                              *)
(***************************************************************************)

SchemaNames == {"s1"}

TableNames == {"t1"}

ShardIDs == {1, 2}

NodeNames == {"n1"}

\* NodeStats.Lease values of a registration.
Leases == {1, 2}

\* The storage of a cluster that has been created and has no schema yet: its
\* topology places every shard on a node, the shard views are empty.
InitStore ==
  /\ stSchemas = {}
  /\ stTables = {}
  /\ stNodes = [n \in NodeNames |-> 0]
  /\ stTopology = [version |-> 0, shardNodes |-> {[id |-> s, node |-> "n1"] : s \in ShardIDs}]
  /\ stShardViews = [s \in ShardIDs |-> [version |-> 0, tableIds |-> {}]]
  /\ nextID = 1

\* The storage an earlier run of the coordinator has left to a new Cluster:
\* schema s1 with ID 1, alone or with table t1 of ID 2 on shard 1. CreateTable
\* writes the table row only, so the shard views are as they were created.
InitStoreKept ==
  /\ stSchemas = {[id |-> 1, name |-> "s1"]}
  /\ \E withTable \in BOOLEAN :
       /\ stTables = IF withTable
                       THEN {[sid |-> 1, name |-> "t1", id |-> 2, shard |-> 1]}
                       ELSE {}
       /\ nextID = IF withTable THEN 3 ELSE 2
  /\ stNodes = [n \in NodeNames |-> 0]
  /\ stTopology = [version |-> 0, shardNodes |-> {[id |-> s, node |-> "n1"] : s \in ShardIDs}]
  /\ stShardViews = [s \in ShardIDs |-> [version |-> 0, tableIds |-> {}]]

\* Storage.CreateTable: the row of (schema id, table name) is written.
PutTable(rows, row) ==
  {r \in rows : ~(r.sid = row.sid /\ r.name = row.name)} \cup {row}

(***************************************************************************)
(* Cluster                                                                 *)
(***************************************************************************)

\* Calls of Cluster methods made in one behaviour.
MaxOps == 4

\* Goroutines calling the Cluster.
Callers == {"c1", "c2"}

NoTable == [id |-> 0, shard |-> 0]

NoNode == [present |-> FALSE, lease |-> 0, shardIDs |-> [s \in ShardIDs |-> 0]]

NoSnapshot ==
  [shardNodes |-> {}, views |-> [s \in ShardIDs |-> [version |-> 0, tableIds |-> {}]],
   schemas |-> {}, nodes |-> [n \in NodeNames |-> 0], tables |-> {}]

IdleCall ==
  [pc |-> "idle", op |-> "none", schema |-> "none", table |-> "none", shard |-> 0,
   tid |-> 0, node |-> "none", lease |-> 0, sid |-> 0, newid |-> 0,
   existed |-> FALSE, pre |-> {}, snap |-> NoSnapshot]

\* NewCluster: empty caches, nothing in progress.
InitCluster ==
  /\ cwriter = "free"
  /\ schemasCache = [s \in SchemaNames |-> 0]
  /\ tableMap = [s \in SchemaNames |-> [n \in TableNames |-> NoTable]]
  /\ shardsLoaded = {}
  /\ shardTables = [s \in ShardIDs |-> {}]
  /\ nodesCache = [n \in NodeNames |-> NoNode]
  /\ cl = [c \in Callers |-> IdleCall]
  /\ nops = 0
  /\ created = {}
  /\ schemaRets = {}
  /\ dropRets = {}
  /\ lastRet = [caller |-> "none", op |-> "none", ret |-> "none"]
  /\ crashed = FALSE

CanCall(c) == cl[c].pc = "idle" /\ nops < MaxOps

Returned(c, op, ret) == [caller |-> c, op |-> op, ret |-> ret]

\* ---- Load ----

\* Load: c.lock.Lock().
LoadLock(c) ==
  /\ CanCall(c)
  /\ cwriter = "free"
  /\ cwriter' = c
  /\ cl' = [cl EXCEPT ![c] = [IdleCall EXCEPT !.pc = "ld_read", !.op = "Load"]]
  /\ nops' = nops + 1
  /\ UNCHANGED <<schemasCache, tableMap, shardsLoaded, shardTables, nodesCache,
                 created, schemaRets, dropRets, lastRet, crashed, storeVars, notCluster>>

\* Load: the five reads of the storage; any of them may fail.
LoadRead(c) ==
  /\ cl[c].pc = "ld_read"
  /\ \/ /\ cl' = [cl EXCEPT ![c].pc = "ld_cache",
                            ![c].snap = [shardNodes |-> stTopology.shardNodes,
                                         views |-> stShardViews,
                                         schemas |-> stSchemas,
                                         nodes |-> stNodes,
                                         tables |-> stTables]]
        /\ UNCHANGED <<cwriter, lastRet>>
     \/ /\ cl' = [cl EXCEPT ![c] = IdleCall]
        /\ cwriter' = "free"
        /\ lastRet' = Returned(c, "Load", "error")
  /\ UNCHANGED <<schemasCache, tableMap, shardsLoaded, shardTables, nodesCache, nops,
                 created, schemaRets, dropRets, crashed, storeVars, notCluster>>

\* loadSchemaLocked: schemaMap[schema.Name] = schema keeps one row per name.
SchemaPicks(snap) ==
  {f \in [{r.name : r \in snap.schemas} -> {r.id : r \in snap.schemas}] :
     \A n \in DOMAIN f : [id |-> f[n], name |-> n] \in snap.schemas}

\* loadTableLocked: the rows of the picked schema of a name.
TablesLoaded(snap, pick, name) ==
  IF name \in DOMAIN pick THEN {r \in snap.tables : r.sid = pick[name]} ELSE {}

\* updateCacheLocked, first loop: a schema enters the cache only with its tables.
LoadedSchemas(snap, pick) ==
  [s \in SchemaNames |->
     IF schemasCache[s] # 0 \/ TablesLoaded(snap, pick, s) = {}
       THEN schemasCache[s] ELSE pick[s]]

LoadedTableMap(snap, pick) ==
  [s \in SchemaNames |->
     [n \in TableNames |->
        IF \E r \in TablesLoaded(snap, pick, s) : r.name = n
          THEN LET r == CHOOSE x \in TablesLoaded(snap, pick, s) : x.name = n
               IN  [id |-> r.id, shard |-> r.shard]
          ELSE tableMap[s][n]]]

\* updateCacheLocked, node loops: each loop appends the shard once.
LoadedNodes(snap) ==
  [n \in NodeNames |->
     LET cnt == [s \in ShardIDs |->
                   IF [id |-> s, node |-> n] \in snap.shardNodes THEN 1 ELSE 0]
     IN  IF snap.nodes[n] # 0
           THEN [present |-> TRUE, lease |-> snap.nodes[n],
                 shardIDs |-> [s \in ShardIDs |-> cnt[s] + cnt[s]]]
         ELSE IF nodesCache[n].present
           THEN [nodesCache[n] EXCEPT
                   !.shardIDs = [s \in ShardIDs |-> nodesCache[n].shardIDs[s] + cnt[s]]]
         ELSE nodesCache[n]]

\* updateCacheLocked, shard loop: the table IDs of the view that have a row.
LoadedShardTables(snap, pick) ==
  [s \in ShardIDs |->
     IF s \in {r.id : r \in snap.shardNodes}
       THEN {tid \in snap.views[s].tableIds :
               \E n \in SchemaNames : \E r \in TablesLoaded(snap, pick, n) : r.id = tid}
       ELSE shardTables[s]]

\* Load: updateCacheLocked and the deferred Unlock.
LoadUpdateCache(c) ==
  /\ cl[c].pc = "ld_cache"
  /\ \E pick \in SchemaPicks(cl[c].snap) :
       /\ schemasCache' = LoadedSchemas(cl[c].snap, pick)
       /\ tableMap' = LoadedTableMap(cl[c].snap, pick)
       /\ shardTables' = LoadedShardTables(cl[c].snap, pick)
  /\ nodesCache' = LoadedNodes(cl[c].snap)
  /\ shardsLoaded' = shardsLoaded \cup {r.id : r \in cl[c].snap.shardNodes}
  /\ cwriter' = "free"
  /\ cl' = [cl EXCEPT ![c] = IdleCall]
  /\ lastRet' = Returned(c, "Load", "ok")
  /\ UNCHANGED <<nops, created, schemaRets, dropRets, crashed, storeVars, notCluster>>

\* GetShardIDs(nodeName): node.shardIDs, here as the number of times each shard
\* is in the list, or ErrNodeNotFound.
GetShardIDs(nodeName) ==
  IF nodesCache[nodeName].present
    THEN nodesCache[nodeName].shardIDs
    ELSE "ErrNodeNotFound"

\* ---- CreateSchema ----

\* CreateSchema: the name is in the cache, return its ID.
CreateSchemaExists(c, name) ==
  /\ CanCall(c)
  /\ schemasCache[name] # 0
  /\ nops' = nops + 1
  /\ schemaRets' = schemaRets \cup {[name |-> name, id |-> schemasCache[name]]}
  /\ lastRet' = Returned(c, "CreateSchema", "ok")
  /\ UNCHANGED <<cacheVars, cl, created, dropRets, crashed, storeVars, notCluster>>

\* CreateSchema: the name is not in the cache.
CreateSchemaCall(c, name) ==
  /\ CanCall(c)
  /\ schemasCache[name] = 0
  /\ nops' = nops + 1
  /\ cl' = [cl EXCEPT ![c] = [IdleCall EXCEPT !.pc = "cs_alloc", !.op = "CreateSchema",
                                               !.schema = name]]
  /\ UNCHANGED <<cacheVars, created, schemaRets, dropRets, lastRet, crashed,
                 storeVars, notCluster>>

\* CreateSchema: allocSchemaID.
CreateSchemaAlloc(c) ==
  /\ cl[c].pc = "cs_alloc"
  /\ \/ /\ cl' = [cl EXCEPT ![c].pc = "cs_store", ![c].newid = nextID]
        /\ nextID' = nextID + 1
        /\ UNCHANGED lastRet
     \/ /\ cl' = [cl EXCEPT ![c] = IdleCall]
        /\ lastRet' = Returned(c, "CreateSchema", "error")
        /\ UNCHANGED nextID
  /\ UNCHANGED <<cacheVars, nops, created, schemaRets, dropRets, crashed,
                 stSchemas, stTables, stNodes, stTopology, stShardViews, notCluster>>

\* CreateSchema: storage.CreateSchema writes the row of the new ID.
CreateSchemaStore(c) ==
  /\ cl[c].pc = "cs_store"
  /\ \/ /\ stSchemas' = stSchemas \cup {[id |-> cl[c].newid, name |-> cl[c].schema]}
        /\ cl' = [cl EXCEPT ![c].pc = "cs_lock"]
        /\ UNCHANGED lastRet
     \/ /\ cl' = [cl EXCEPT ![c] = IdleCall]
        /\ lastRet' = Returned(c, "CreateSchema", "error")
        /\ UNCHANGED stSchemas
  /\ UNCHANGED <<cacheVars, nops, created, schemaRets, dropRets, crashed,
                 stTables, stNodes, stTopology, stShardViews, nextID, notCluster>>

\* CreateSchema: c.lock.Lock().
CreateSchemaLock(c) ==
  /\ cl[c].pc = "cs_lock"
  /\ cwriter = "free"
  /\ cwriter' = c
  /\ cl' = [cl EXCEPT ![c].pc = "cs_cache"]
  /\ UNCHANGED <<schemasCache, tableMap, shardsLoaded, shardTables, nodesCache, nops,
                 created, schemaRets, dropRets, lastRet, crashed, storeVars, notCluster>>

\* CreateSchema: updateSchemaCacheLocked puts a Schema with an empty tableMap.
CreateSchemaCache(c) ==
  /\ cl[c].pc = "cs_cache"
  /\ schemasCache' = [schemasCache EXCEPT ![cl[c].schema] = cl[c].newid]
  /\ tableMap' = [tableMap EXCEPT ![cl[c].schema] = [n \in TableNames |-> NoTable]]
  /\ cwriter' = "free"
  /\ schemaRets' = schemaRets \cup {[name |-> cl[c].schema, id |-> cl[c].newid]}
  /\ lastRet' = Returned(c, "CreateSchema", "ok")
  /\ cl' = [cl EXCEPT ![c] = IdleCall]
  /\ UNCHANGED <<shardsLoaded, shardTables, nodesCache, nops, created, dropRets,
                 crashed, storeVars, notCluster>>

\* ---- CreateTable ----

\* CreateTable: Lock, the schema is not in the cache, ErrSchemaNotFound.
CreateTableNoSchema(c, schema, shard, name) ==
  /\ CanCall(c)
  /\ cwriter = "free"
  /\ schemasCache[schema] = 0
  /\ nops' = nops + 1
  /\ lastRet' = Returned(c, "CreateTable", "ErrSchemaNotFound")
  /\ UNCHANGED <<cacheVars, cl, created, schemaRets, dropRets, crashed,
                 storeVars, notCluster>>

\* CreateTable: Lock, the schema is in the cache.
CreateTableLock(c, schema, shard, name) ==
  /\ CanCall(c)
  /\ cwriter = "free"
  /\ schemasCache[schema] # 0
  /\ cwriter' = c
  /\ nops' = nops + 1
  /\ cl' = [cl EXCEPT ![c] = [IdleCall EXCEPT !.pc = "ct_alloc", !.op = "CreateTable",
                                               !.schema = schema, !.table = name,
                                               !.shard = shard,
                                               !.sid = schemasCache[schema],
                                               !.pre = shardTables[shard]]]
  /\ UNCHANGED <<schemasCache, tableMap, shardsLoaded, shardTables, nodesCache,
                 created, schemaRets, dropRets, lastRet, crashed, storeVars, notCluster>>

\* CreateTable: allocTableID.
CreateTableAlloc(c) ==
  /\ cl[c].pc = "ct_alloc"
  /\ \/ /\ cl' = [cl EXCEPT ![c].pc = "ct_store", ![c].newid = nextID]
        /\ nextID' = nextID + 1
        /\ UNCHANGED <<cwriter, lastRet>>
     \/ /\ cl' = [cl EXCEPT ![c] = IdleCall]
        /\ cwriter' = "free"
        /\ lastRet' = Returned(c, "CreateTable", "error")
        /\ UNCHANGED nextID
  /\ UNCHANGED <<schemasCache, tableMap, shardsLoaded, shardTables, nodesCache, nops,
                 created, schemaRets, dropRets, crashed,
                 stSchemas, stTables, stNodes, stTopology, stShardViews, notCluster>>

\* Mutant of CreateTableStore: the table is put into the schema's table map
\* before the storage is written, and stays there when the write fails.
CreateTableStoreDirty(c) ==
  /\ cl[c].pc = "ct_store"
  /\ tableMap' = [tableMap EXCEPT ![cl[c].schema][cl[c].table] =
                                    [id |-> cl[c].newid, shard |-> cl[c].shard]]
  /\ \/ /\ stTables' = PutTable(stTables, [sid |-> cl[c].sid, name |-> cl[c].table,
                                           id |-> cl[c].newid, shard |-> cl[c].shard])
        /\ cl' = [cl EXCEPT ![c].pc = "ct_cache"]
        /\ UNCHANGED <<cwriter, lastRet>>
     \/ /\ cl' = [cl EXCEPT ![c] = IdleCall]
        /\ cwriter' = "free"
        /\ lastRet' = Returned(c, "CreateTable", "error")
        /\ UNCHANGED stTables
  /\ UNCHANGED <<schemasCache, shardsLoaded, shardTables, nodesCache, nops,
                 created, schemaRets, dropRets, crashed,
                 stSchemas, stNodes, stTopology, stShardViews, nextID, notCluster>>

\* CreateTable: storage.CreateTable.
CreateTableStore(c) ==
  /\ cl[c].pc = "ct_store"
  /\ \/ /\ stTables' = PutTable(stTables, [sid |-> cl[c].sid, name |-> cl[c].table,
                                           id |-> cl[c].newid, shard |-> cl[c].shard])
        /\ cl' = [cl EXCEPT ![c].pc = "ct_cache"]
        /\ UNCHANGED <<cwriter, lastRet>>
     \/ /\ cl' = [cl EXCEPT ![c] = IdleCall]
        /\ cwriter' = "free"
        /\ lastRet' = Returned(c, "CreateTable", "error")
        /\ UNCHANGED stTables
  /\ UNCHANGED <<schemasCache, tableMap, shardsLoaded, shardTables, nodesCache, nops,
                 created, schemaRets, dropRets, crashed,
                 stSchemas, stNodes, stTopology, stShardViews, nextID, notCluster>>

\* updateTableCacheLocked with a shard that is not in shardsCache: the table
\* map of the schema is written, then the nil *Shard is dereferenced.
CreateTableCachePanics(c) ==
  /\ cl[c].pc = "ct_cache"
  /\ cl[c].shard \notin shardsLoaded
  /\ tableMap' = [tableMap EXCEPT ![cl[c].schema][cl[c].table] =
                                    [id |-> cl[c].newid, shard |-> cl[c].shard]]
  /\ cwriter' = "free"
  /\ crashed' = TRUE
  /\ lastRet' = Returned(c, "CreateTable", "panic")
  /\ cl' = [cl EXCEPT ![c] = IdleCall]
  /\ UNCHANGED <<schemasCache, shardsLoaded, shardTables, nodesCache, nops, created,
                 schemaRets, dropRets, storeVars, notCluster>>

\* CreateTable: updateTableCacheLocked, the deferred Unlock, return tableID.
CreateTableCache(c) ==
  /\ cl[c].pc = "ct_cache"
  /\ cl[c].shard \in shardsLoaded
  /\ tableMap' = [tableMap EXCEPT ![cl[c].schema][cl[c].table] =
                                    [id |-> cl[c].newid, shard |-> cl[c].shard]]
  /\ shardTables' = [shardTables EXCEPT ![cl[c].shard] = @ \cup {cl[c].newid}]
  /\ cwriter' = "free"
  /\ created' = created \cup {[schema |-> cl[c].schema, name |-> cl[c].table,
                               shard |-> cl[c].shard, id |-> cl[c].newid,
                               pre |-> cl[c].pre]}
  /\ lastRet' = Returned(c, "CreateTable", "ok")
  /\ cl' = [cl EXCEPT ![c] = IdleCall]
  /\ UNCHANGED <<schemasCache, shardsLoaded, nodesCache, nops, schemaRets, dropRets,
                 crashed, storeVars, notCluster>>

\* ---- DropTable ----

\* The table a DropTable call names is the one the cache has under that name.
TableExists(schema, name, tid) ==
  schemasCache[schema] # 0 /\ tid # 0 /\ tableMap[schema][name].id = tid

\* The table is in no map of the cache, in no row and in no shard.
TableGone(schema, name, tid) ==
  /\ tableMap[schema][name].id # tid
  /\ ~\E r \in stTables : r.id = tid
  /\ \A s \in ShardIDs : tid \notin shardTables[s]

\* DropTable: the schema is in the cache, ErrSchemaNotFound.
DropTableSchemaExists(c, schema, name, tid) ==
  /\ CanCall(c)
  /\ schemasCache[schema] # 0
  /\ nops' = nops + 1
  /\ dropRets' = dropRets \cup {[schema |-> schema, name |-> name, id |-> tid,
                                 ret |-> "ErrSchemaNotFound",
                                 existed |-> TableExists(schema, name, tid),
                                 gone |-> TableGone(schema, name, tid)]}
  /\ lastRet' = Returned(c, "DropTable", "ErrSchemaNotFound")
  /\ UNCHANGED <<cacheVars, cl, created, schemaRets, crashed, storeVars, notCluster>>

\* DropTable: the schema is not in the cache, schema.GetID() on the nil *Schema.
DropTableNoSchema(c, schema, name, tid) ==
  /\ CanCall(c)
  /\ schemasCache[schema] = 0
  /\ nops' = nops + 1
  /\ crashed' = TRUE
  /\ dropRets' = dropRets \cup {[schema |-> schema, name |-> name, id |-> tid,
                                 ret |-> "panic", existed |-> FALSE,
                                 gone |-> TableGone(schema, name, tid)]}
  /\ lastRet' = Returned(c, "DropTable", "panic")
  /\ UNCHANGED <<cacheVars, cl, created, schemaRets, storeVars, notCluster>>

\* ---- GetTable ----

\* GetTable: RLock, the schema is not in the cache, RUnlock, ErrSchemaNotFound.
GetTableNoSchema(c, schema, name) ==
  /\ CanCall(c)
  /\ cwriter = "free"
  /\ schemasCache[schema] = 0
  /\ nops' = nops + 1
  /\ lastRet' = Returned(c, "GetTable", "ErrSchemaNotFound")
  /\ UNCHANGED <<cacheVars, cl, created, schemaRets, dropRets, crashed,
                 storeVars, notCluster>>

\* GetTable: RLock, the table is in the cache, RUnlock, found.
GetTableCached(c, schema, name) ==
  /\ CanCall(c)
  /\ cwriter = "free"
  /\ schemasCache[schema] # 0
  /\ tableMap[schema][name] # NoTable
  /\ nops' = nops + 1
  /\ lastRet' = Returned(c, "GetTable", "found")
  /\ UNCHANGED <<cacheVars, cl, created, schemaRets, dropRets, crashed,
                 storeVars, notCluster>>

\* GetTable: RLock, the table is not in the cache, RUnlock.
GetTableMiss(c, schema, name) ==
  /\ CanCall(c)
  /\ cwriter = "free"
  /\ schemasCache[schema] # 0
  /\ tableMap[schema][name] = NoTable
  /\ nops' = nops + 1
  /\ cl' = [cl EXCEPT ![c] = [IdleCall EXCEPT !.pc = "gt_store", !.op = "GetTable",
                                               !.schema = schema, !.table = name,
                                               !.sid = schemasCache[schema]]]
  /\ UNCHANGED <<cacheVars, created, schemaRets, dropRets, lastRet, crashed,
                 storeVars, notCluster>>

\* GetTable: storage.GetTable fails or finds no row.
GetTableStoreMiss(c) ==
  /\ cl[c].pc = "gt_store"
  /\ \E ret \in {"error"} \cup
                 (IF \E r \in stTables : r.sid = cl[c].sid /\ r.name = cl[c].table
                    THEN {} ELSE {"not found"}) :
       lastRet' = Returned(c, "GetTable", ret)
  /\ cl' = [cl EXCEPT ![c] = IdleCall]
  /\ UNCHANGED <<cacheVars, nops, created, schemaRets, dropRets, crashed,
                 storeVars, notCluster>>

\* GetTable: storage.GetTable finds the row.
GetTableStoreHit(c) ==
  /\ cl[c].pc = "gt_store"
  /\ \E r \in stTables :
       /\ r.sid = cl[c].sid /\ r.name = cl[c].table
       /\ cl' = [cl EXCEPT ![c].pc = "gt_lock", ![c].newid = r.id, ![c].shard = r.shard]
  /\ UNCHANGED <<cacheVars, nops, created, schemaRets, dropRets, lastRet, crashed,
                 storeVars, notCluster>>

\* GetTable: c.lock.Lock().
GetTableLock(c) ==
  /\ cl[c].pc = "gt_lock"
  /\ cwriter = "free"
  /\ cwriter' = c
  /\ cl' = [cl EXCEPT ![c].pc = "gt_cache"]
  /\ UNCHANGED <<schemasCache, tableMap, shardsLoaded, shardTables, nodesCache, nops,
                 created, schemaRets, dropRets, lastRet, crashed, storeVars, notCluster>>

\* GetTable: updateTableCacheLocked (panics when the shard of the row is not
\* in shardsCache), the deferred Unlock, found.
GetTableCache(c) ==
  /\ cl[c].pc = "gt_cache"
  /\ tableMap' = [tableMap EXCEPT ![cl[c].schema][cl[c].table] =
                                    [id |-> cl[c].newid, shard |-> cl[c].shard]]
  /\ shardTables' = IF cl[c].shard \in shardsLoaded
                      THEN [shardTables EXCEPT ![cl[c].shard] = @ \cup {cl[c].newid}]
                      ELSE shardTables
  /\ crashed' = (crashed \/ cl[c].shard \notin shardsLoaded)
  /\ cwriter' = "free"
  /\ lastRet' = Returned(c, "GetTable",
                         IF cl[c].shard \in shardsLoaded THEN "found" ELSE "panic")
  /\ cl' = [cl EXCEPT ![c] = IdleCall]
  /\ UNCHANGED <<schemasCache, shardsLoaded, nodesCache, nops, created, schemaRets,
                 dropRets, storeVars, notCluster>>

\* ---- RegisterNode ----

RegisterNodeCall(c, node, lease) ==
  /\ CanCall(c)
  /\ nops' = nops + 1
  /\ cl' = [cl EXCEPT ![c] = [IdleCall EXCEPT !.pc = "rn_store", !.op = "RegisterNode",
                                               !.node = node, !.lease = lease]]
  /\ UNCHANGED <<cacheVars, created, schemaRets, dropRets, lastRet, crashed,
                 storeVars, notCluster>>

\* RegisterNode: storage.CreateOrUpdateNode.
RegisterNodeStore(c) ==
  /\ cl[c].pc = "rn_store"
  /\ \/ /\ stNodes' = [stNodes EXCEPT ![cl[c].node] = cl[c].lease]
        /\ cl' = [cl EXCEPT ![c].pc = "rn_lock"]
        /\ UNCHANGED lastRet
     \/ /\ cl' = [cl EXCEPT ![c] = IdleCall]
        /\ lastRet' = Returned(c, "RegisterNode", "error")
        /\ UNCHANGED stNodes
  /\ UNCHANGED <<cacheVars, nops, created, schemaRets, dropRets, crashed,
                 stSchemas, stTables, stTopology, stShardViews, nextID, notCluster>>

\* RegisterNode: c.lock.Lock().
RegisterNodeLock(c) ==
  /\ cl[c].pc = "rn_lock"
  /\ cwriter = "free"
  /\ cwriter' = c
  /\ cl' = [cl EXCEPT ![c].pc = "rn_cache"]
  /\ UNCHANGED <<schemasCache, tableMap, shardsLoaded, shardTables, nodesCache, nops,
                 created, schemaRets, dropRets, lastRet, crashed, storeVars, notCluster>>

\* Mutant of RegisterNodeCache: the cache entry is always replaced by a new Node.
RegisterNodeCacheReplace(c) ==
  /\ cl[c].pc = "rn_cache"
  /\ nodesCache' = [nodesCache EXCEPT ![cl[c].node] =
                      [NoNode EXCEPT !.present = TRUE, !.lease = cl[c].lease]]
  /\ cwriter' = "free"
  /\ lastRet' = Returned(c, "RegisterNode", "ok")
  /\ cl' = [cl EXCEPT ![c] = IdleCall]
  /\ UNCHANGED <<schemasCache, tableMap, shardsLoaded, shardTables, nops, created,
                 schemaRets, dropRets, crashed, storeVars, notCluster>>

\* RegisterNode: node.meta = nodePb1, or a new Node for a new name; Unlock.
RegisterNodeCache(c) ==
  /\ cl[c].pc = "rn_cache"
  /\ nodesCache' = [nodesCache EXCEPT ![cl[c].node] =
                      IF @.present THEN [@ EXCEPT !.lease = cl[c].lease]
                      ELSE [NoNode EXCEPT !.present = TRUE, !.lease = cl[c].lease]]
  /\ cwriter' = "free"
  /\ lastRet' = Returned(c, "RegisterNode", "ok")
  /\ cl' = [cl EXCEPT ![c] = IdleCall]
  /\ UNCHANGED <<schemasCache, tableMap, shardsLoaded, shardTables, nops, created,
                 schemaRets, dropRets, crashed, storeVars, notCluster>>

\* IDs a DropTable call can name.
TableIDArgs == 1..MaxOps

NextCluster ==
  \/ \E c \in Callers : LoadLock(c)
  \/ \E c \in Callers : LoadRead(c)
  \/ \E c \in Callers : LoadUpdateCache(c)
  \/ \E c \in Callers, s \in SchemaNames : CreateSchemaExists(c, s)
  \/ \E c \in Callers, s \in SchemaNames : CreateSchemaCall(c, s)
  \/ \E c \in Callers : CreateSchemaAlloc(c)
  \/ \E c \in Callers : CreateSchemaStore(c)
  \/ \E c \in Callers : CreateSchemaLock(c)
  \/ \E c \in Callers : CreateSchemaCache(c)
  \/ \E c \in Callers, s \in SchemaNames, sh \in ShardIDs, n \in TableNames :
       CreateTableNoSchema(c, s, sh, n)
  \/ \E c \in Callers, s \in SchemaNames, sh \in ShardIDs, n \in TableNames :
       CreateTableLock(c, s, sh, n)
  \/ \E c \in Callers : CreateTableAlloc(c)
  \/ \E c \in Callers : CreateTableStore(c)
  \/ \E c \in Callers : CreateTableCachePanics(c)
  \/ \E c \in Callers : CreateTableCache(c)
  \/ \E c \in Callers, s \in SchemaNames, n \in TableNames, tid \in TableIDArgs :
       DropTableSchemaExists(c, s, n, tid)
  \/ \E c \in Callers, s \in SchemaNames, n \in TableNames, tid \in TableIDArgs :
       DropTableNoSchema(c, s, n, tid)
  \/ \E c \in Callers, s \in SchemaNames, n \in TableNames : GetTableNoSchema(c, s, n)
  \/ \E c \in Callers, s \in SchemaNames, n \in TableNames : GetTableCached(c, s, n)
  \/ \E c \in Callers, s \in SchemaNames, n \in TableNames : GetTableMiss(c, s, n)
  \/ \E c \in Callers : GetTableStoreMiss(c)
  \/ \E c \in Callers : GetTableStoreHit(c)
  \/ \E c \in Callers : GetTableLock(c)
  \/ \E c \in Callers : GetTableCache(c)
  \/ \E c \in Callers, n \in NodeNames, l \in Leases : RegisterNodeCall(c, n, l)
  \/ \E c \in Callers : RegisterNodeStore(c)
  \/ \E c \in Callers : RegisterNodeLock(c)
  \/ \E c \in Callers : RegisterNodeCache(c)

(***************************************************************************)
(* Versioned updates of the views: UpdateShardView, UpdateClusterView      *)
(***************************************************************************)

\* Versions a view can reach.
MaxVersion == 2

\* Procedures updating views at the same time.
Updaters == {"u1", "u2"}

\* Table ID lists an update can write to a shard view.
ViewTables == {{1}, {1, 2}}

\* Placements an update can write to the cluster view.
ViewShardNodes ==
  {{[id |-> s, node |-> "n1"] : s \in S} : S \in {{1}, ShardIDs}}

InitUpd ==
  upd = [u \in Updaters |->
           [pc |-> "idle", kind |-> "none", shard |-> 0, prev |-> 0, tableIds |-> {},
            shardNodes |-> {}, res |-> "none"]]

\* A caller reads a shard view and builds UpdateShardViewRequest{ShardView, PrevVersion}.
UpdReadShardView(u, s, ids) ==
  /\ upd[u].pc = "idle"
  /\ stShardViews[s].version < MaxVersion
  /\ upd' = [upd EXCEPT ![u] = [pc |-> "cas", kind |-> "shard", shard |-> s,
                                prev |-> stShardViews[s].version, tableIds |-> ids,
                                shardNodes |-> {}, res |-> "none"]]
  /\ UNCHANGED <<storeVars, notStore>>

\* A caller reads the cluster view and builds UpdateClusterViewRequest{ClusterView, LatestVersion}.
UpdReadClusterView(u, sn) ==
  /\ upd[u].pc = "idle"
  /\ stTopology.version < MaxVersion
  /\ upd' = [upd EXCEPT ![u] = [pc |-> "cas", kind |-> "cluster", shard |-> 0,
                                prev |-> stTopology.version, tableIds |-> {},
                                shardNodes |-> sn, res |-> "none"]]
  /\ UNCHANGED <<storeVars, notStore>>

\* Mutant of UpdateShardView: the view is put without comparing versions.
UpdateShardViewBlind(u) ==
  /\ upd[u].pc = "cas"
  /\ upd[u].kind = "shard"
  /\ stShardViews' = [stShardViews EXCEPT ![upd[u].shard] =
                        [version |-> upd[u].prev + 1, tableIds |-> upd[u].tableIds]]
  /\ upd' = [upd EXCEPT ![u].pc = "idle", ![u].res = "ok"]
  /\ UNCHANGED <<stSchemas, stTables, stNodes, stTopology, nextID, notStore>>

\* Storage.UpdateShardView: a transaction guarded by the stored version.
UpdateShardView(u) ==
  /\ upd[u].pc = "cas"
  /\ upd[u].kind = "shard"
  /\ \/ /\ stShardViews[upd[u].shard].version = upd[u].prev
        /\ stShardViews' = [stShardViews EXCEPT ![upd[u].shard] =
                              [version |-> upd[u].prev + 1, tableIds |-> upd[u].tableIds]]
        /\ upd' = [upd EXCEPT ![u].pc = "idle", ![u].res = "ok"]
     \/ /\ stShardViews[upd[u].shard].version # upd[u].prev
        /\ upd' = [upd EXCEPT ![u].pc = "idle", ![u].res = "conflict"]
        /\ UNCHANGED stShardViews
     \/ /\ upd' = [upd EXCEPT ![u].pc = "idle", ![u].res = "unavailable"]
        /\ UNCHANGED stShardViews
  /\ UNCHANGED <<stSchemas, stTables, stNodes, stTopology, nextID, notStore>>

\* Storage.UpdateClusterView: a transaction guarded by the stored version.
UpdateClusterView(u) ==
  /\ upd[u].pc = "cas"
  /\ upd[u].kind = "cluster"
  /\ \/ /\ stTopology.version = upd[u].prev
        /\ stTopology' = [version |-> upd[u].prev + 1, shardNodes |-> upd[u].shardNodes]
        /\ upd' = [upd EXCEPT ![u].pc = "idle", ![u].res = "ok"]
     \/ /\ stTopology.version # upd[u].prev
        /\ upd' = [upd EXCEPT ![u].pc = "idle", ![u].res = "conflict"]
        /\ UNCHANGED stTopology
     \/ /\ upd' = [upd EXCEPT ![u].pc = "idle", ![u].res = "unavailable"]
        /\ UNCHANGED stTopology
  /\ UNCHANGED <<stSchemas, stTables, stNodes, stShardViews, nextID, notStore>>

NextStore ==
  \/ \E u \in Updaters, s \in ShardIDs, ids \in ViewTables : UpdReadShardView(u, s, ids)
  \/ \E u \in Updaters, sn \in ViewShardNodes : UpdReadClusterView(u, sn)
  \/ \E u \in Updaters : UpdateShardView(u)
  \/ \E u \in Updaters : UpdateClusterView(u)

(***************************************************************************)
(* Scatter: the initial assignment of the shards to the nodes              *)
(***************************************************************************)

\* [shardTotal, minNodeCount] of the clusters looked at.
ScatterConfigs ==
  {[shardTotal |-> 4, minNodeCount |-> 2],
   [shardTotal |-> 3, minNodeCount |-> 2],
   [shardTotal |-> 2, minNodeCount |-> 4]}

ScatterNodes == {"node0", "node1", "node2", "node3"}

\* Scatter procedures running at the same time, one per heartbeat that
\* starts one.
ScatterProcs == {"sp1", "sp2"}

\* Mutant of allocNodeShards: the shards go to the nodes in turn.
allocNodeShardsInTurn(shardTotal, minNodeCount, nodes) ==
  [k \in 1..shardTotal |-> nodes[((k - 1) % minNodeCount) + 1]]

\* allocNodeShards: the first minNodeCount nodes of the list are filled in
\* order, each with ceil(shardTotal / minNodeCount) shards, until shardTotal
\* shards are placed. Shard i of the result is on node shards[i].
allocNodeShards(shardTotal, minNodeCount, nodes) ==
  LET perNode == (shardTotal + minNodeCount - 1) \div minNodeCount
  IN  [k \in 1..shardTotal |-> nodes[((k - 1) \div perNode) + 1]]

\* No node is registered, the ClusterView is empty, the procedures wait.
ScatterStart ==
  /\ scNodes = <<>>
  /\ scView = [version |-> 0, state |-> "empty", shards |-> <<>>]
  /\ sc = [p \in ScatterProcs |->
             [pc |-> "wait", polled |-> FALSE, nodes |-> <<>>, version |-> 0]]
  /\ scCommits = 0

InitScatter == scCfg = [shardTotal |-> 4, minNodeCount |-> 2] /\ ScatterStart

InitScatterAny == scCfg \in ScatterConfigs /\ ScatterStart

\* RegisterNode on a node's first heartbeat: the node joins the registry; the
\* ClusterView is not written.
ScatterRegister(n) ==
  /\ n \notin Range(scNodes)
  /\ scNodes' = Append(scNodes, n)
  /\ UNCHANGED <<scCfg, scView, sc, scCommits, notScatter>>

\* The procedure looks at the cluster and has nothing to do: too few nodes
\* (it will look again), or a ClusterState that is not empty (it ends).
ScatterSkip(p) ==
  /\ sc[p].pc = "wait"
  /\ \/ /\ scView.state = "empty"
        /\ Len(scNodes) < scCfg.minNodeCount
        /\ sc' = [sc EXCEPT ![p].polled = TRUE]
     \/ /\ scView.state # "empty"
        /\ sc' = [sc EXCEPT ![p].pc = "done"]
  /\ UNCHANGED <<scCfg, scNodes, scView, scCommits, notScatter>>

\* Mutant of ScatterCheck: MinNodeCount nodes are not enough, one more is
\* waited for.
ScatterCheckOneMore(p) ==
  /\ sc[p].pc = "wait"
  /\ scView.state = "empty"
  /\ Len(scNodes) > scCfg.minNodeCount
  /\ sc' = [sc EXCEPT ![p].pc = "commit", ![p].nodes = scNodes,
                       ![p].version = scView.version]
  /\ UNCHANGED <<scCfg, scNodes, scView, scCommits, notScatter>>

\* Mutant of ScatterCheck: one registered node is enough.
ScatterCheckAnyNode(p) ==
  /\ sc[p].pc = "wait"
  /\ scView.state = "empty"
  /\ Len(scNodes) >= 1
  /\ sc' = [sc EXCEPT ![p].pc = "commit", ![p].nodes = scNodes,
                       ![p].version = scView.version]
  /\ UNCHANGED <<scCfg, scNodes, scView, scCommits, notScatter>>

\* The procedure fires: MinNodeCount nodes are present and the state is
\* empty; it keeps the snapshot it saw.
ScatterCheck(p) ==
  /\ sc[p].pc = "wait"
  /\ scView.state = "empty"
  /\ Len(scNodes) >= scCfg.minNodeCount
  /\ sc' = [sc EXCEPT ![p].pc = "commit", ![p].nodes = scNodes,
                       ![p].version = scView.version]
  /\ UNCHANGED <<scCfg, scNodes, scView, scCommits, notScatter>>

\* Mutant of ScatterCommit: the ClusterView is written whatever its version.
ScatterCommitBlind(p) ==
  /\ sc[p].pc = "commit"
  /\ scView' = [version |-> scView.version + 1, state |-> "stable",
                shards |-> allocNodeShards(scCfg.shardTotal,
                                           scCfg.minNodeCount, sc[p].nodes)]
  /\ scCommits' = scCommits + 1
  /\ sc' = [sc EXCEPT ![p].pc = "done"]
  /\ UNCHANGED <<scCfg, scNodes, notScatter>>

\* UpdateClusterView guarded by the version of the snapshot: the assignment
\* of allocNodeShards is written and the state becomes stable; on a conflict
\* the procedure looks at the cluster again.
ScatterCommit(p) ==
  /\ sc[p].pc = "commit"
  /\ IF scView.version = sc[p].version
       THEN /\ scView' = [version |-> scView.version + 1, state |-> "stable",
                          shards |-> allocNodeShards(scCfg.shardTotal,
                                                     scCfg.minNodeCount, sc[p].nodes)]
            /\ scCommits' = scCommits + 1
            /\ sc' = [sc EXCEPT ![p].pc = "done"]
       ELSE /\ sc' = [sc EXCEPT ![p].pc = "wait"]
            /\ UNCHANGED <<scView, scCommits>>
  /\ UNCHANGED <<scCfg, scNodes, notScatter>>

NextScatter ==
  \/ \E n \in ScatterNodes : ScatterRegister(n)
  \/ \E p \in ScatterProcs : ScatterSkip(p)
  \/ \E p \in ScatterProcs : ScatterCheck(p)
  \/ \E p \in ScatterProcs : ScatterCommit(p)

(***************************************************************************)
(* Procedure manager: CreatePartitionTable, DropPartitionTable,            *)
(* TransferLeader                                                          *)
(***************************************************************************)

\* Procedures submitted in one behaviour.
MaxProcs == 2

\* Crashes of the coordinator in one behaviour.
MaxCrashes == 1

ProcIDs == 1..MaxProcs

\* The partitioned table and its sub-tables, <root>_<index>.
RootTable == "p"

SubTables == <<"p_0", "p_1">>

LeaderNodes == {"node0", "node1"}

NoMeta == [kind |-> "none", state |-> "none", step |-> 0, old |-> "none",
           new |-> "none", ver |-> 0]

Terminal(id) == pmeta[id].state \in {"finished", "failed", "cancelled"}

\* The leader entries of the shard in a ClusterView.
ShardLeaders(view) == {sn.node : sn \in {x \in view.shardNodes : x.role = "leader"}}

\* Nothing submitted; node0 leads shard 1; no table.
InitProc ==
  /\ coordUp = TRUE
  /\ ncrash = 0
  /\ pmeta = [id \in ProcIDs |-> NoMeta]
  /\ prun = {}
  /\ psent = {}
  /\ ptables = [t \in {RootTable} \cup Range(SubTables) |->
                 [exists |-> FALSE, partitioned |-> FALSE]]
  /\ pview = [version |-> 0, shardNodes |-> {[node |-> "node0", role |-> "leader"]}]
  /\ events = <<>>

\* What a procedure must have to itself: the table, or the shard.
ProcEntry(kind) == IF kind = "TransferLeader" THEN "shard 1" ELSE RootTable

\* The manager runs a procedure it has in memory when no earlier procedure
\* on the same entry is unfinished.
CanRun(id) ==
  /\ coordUp
  /\ id \in prun
  /\ \A j \in ProcIDs :
       (j < id /\ ProcEntry(pmeta[j].kind) = ProcEntry(pmeta[id].kind)) => Terminal(j)

\* Submit: the Meta is persisted in state init, then the procedure is
\* enqueued. A TransferLeader is made from the snapshot of the request: its
\* old node leads the shard there, and the snapshot's version goes with it.
ProcSubmit(id, kind, old, new) ==
  /\ coordUp
  /\ pmeta[id].state = "none"
  /\ \A j \in ProcIDs : j < id => pmeta[j].state # "none"
  /\ kind = "TransferLeader" => old \in ShardLeaders(pview) /\ new # old
  /\ kind # "TransferLeader" => old = "none" /\ new = "none"
  /\ pmeta' = [pmeta EXCEPT ![id] =
                 [kind |-> kind, state |-> "init", step |-> 0, old |-> old, new |-> new,
                  ver |-> IF kind = "TransferLeader" THEN pview.version ELSE 0]]
  /\ prun' = prun \cup {id}
  /\ UNCHANGED <<coordUp, ncrash, psent, ptables, pview, events, notProc>>

\* Mutant of CreatePartitionStep: the procedure is finished one sub-table
\* early.
CreatePartitionStepShort(id) ==
  /\ CanRun(id)
  /\ pmeta[id].kind = "CreatePartitionTable"
  /\ LET k == pmeta[id].step IN
       IF k = 0 /\ ptables[RootTable].exists
         THEN /\ pmeta' = [pmeta EXCEPT ![id].state = "failed"]
              /\ prun' = prun \ {id}
              /\ UNCHANGED ptables
         ELSE /\ ptables' = [ptables EXCEPT
                               ![IF k = 0 THEN RootTable ELSE SubTables[k]] =
                                 [exists |-> TRUE, partitioned |-> (k = 0)]]
              /\ pmeta' = [pmeta EXCEPT
                             ![id].step = k + 1,
                             ![id].state = IF k = Len(SubTables) - 1 THEN "finished"
                                           ELSE "running"]
              /\ prun' = IF k = Len(SubTables) - 1 THEN prun \ {id} ELSE prun
  /\ UNCHANGED <<coordUp, ncrash, psent, pview, events, notProc>>

\* CreatePartitionTable: the root table first (a name that exists is a
\* terminal failure), then one sub-table per step; the rows and the progress
\* are written in one transaction.
CreatePartitionStep(id) ==
  /\ CanRun(id)
  /\ pmeta[id].kind = "CreatePartitionTable"
  /\ LET k == pmeta[id].step IN
       IF k = 0 /\ ptables[RootTable].exists
         THEN /\ pmeta' = [pmeta EXCEPT ![id].state = "failed"]
              /\ prun' = prun \ {id}
              /\ UNCHANGED ptables
         ELSE /\ ptables' = [ptables EXCEPT
                               ![IF k = 0 THEN RootTable ELSE SubTables[k]] =
                                 [exists |-> TRUE, partitioned |-> (k = 0)]]
              /\ pmeta' = [pmeta EXCEPT
                             ![id].step = k + 1,
                             ![id].state = IF k = Len(SubTables) THEN "finished"
                                           ELSE "running"]
              /\ prun' = IF k = Len(SubTables) THEN prun \ {id} ELSE prun
  /\ UNCHANGED <<coordUp, ncrash, psent, pview, events, notProc>>

\* DropPartitionTable: a root that does not exist is a terminal failure;
\* the sub-tables are dropped one per step, the root last.
DropPartitionStep(id) ==
  /\ CanRun(id)
  /\ pmeta[id].kind = "DropPartitionTable"
  /\ LET k == pmeta[id].step IN
       IF k = 0 /\ ~ptables[RootTable].exists
         THEN /\ pmeta' = [pmeta EXCEPT ![id].state = "failed"]
              /\ prun' = prun \ {id}
              /\ UNCHANGED ptables
         ELSE /\ ptables' = [ptables EXCEPT
                               ![IF k = Len(SubTables) THEN RootTable
                                 ELSE SubTables[k + 1]] =
                                 [exists |-> FALSE, partitioned |-> FALSE]]
              /\ pmeta' = [pmeta EXCEPT
                             ![id].step = k + 1,
                             ![id].state = IF k = Len(SubTables) THEN "finished"
                                           ELSE "running"]
              /\ prun' = IF k = Len(SubTables) THEN prun \ {id} ELSE prun
  /\ UNCHANGED <<coordUp, ncrash, psent, pview, events, notProc>>

\* TransferLeader, steps 0 and 2: CloseShard is sent to the old leader,
\* OpenShard to the new one.
TransferLeaderDispatch(id) ==
  /\ CanRun(id)
  /\ pmeta[id].kind = "TransferLeader"
  /\ pmeta[id].step \in {0, 2}
  /\ id \notin psent
  /\ events' = Append(events,
                      IF pmeta[id].step = 0
                        THEN [op |-> "CloseShard", node |-> pmeta[id].old, pid |-> id,
                              ver |-> pview.version]
                        ELSE [op |-> "OpenShard", node |-> pmeta[id].new, pid |-> id,
                              ver |-> pview.version])
  /\ psent' = psent \cup {id}
  /\ UNCHANGED <<coordUp, ncrash, pmeta, prun, ptables, pview, notProc>>

\* TransferLeader: the RPC has returned, the step is persisted; after
\* OpenShard the procedure is finished.
TransferLeaderPersist(id) ==
  /\ CanRun(id)
  /\ id \in psent
  /\ psent' = psent \ {id}
  /\ pmeta' = [pmeta EXCEPT
                 ![id].step = @ + 1,
                 ![id].state = IF pmeta[id].step = 2 THEN "finished" ELSE "running"]
  /\ prun' = IF pmeta[id].step = 2 THEN prun \ {id} ELSE prun
  /\ UNCHANGED <<coordUp, ncrash, ptables, pview, events, notProc>>

\* Mutant of TransferLeaderUpdate: the new leader is added and the entry of
\* the old leader stays.
TransferLeaderUpdateKeepOld(id) ==
  /\ CanRun(id)
  /\ pmeta[id].kind = "TransferLeader"
  /\ pmeta[id].step = 1
  /\ IF pview.version = pmeta[id].ver
       THEN /\ pview' = [version |-> pview.version + 1,
                         shardNodes |-> pview.shardNodes
                           \cup {[node |-> pmeta[id].new, role |-> "leader"]}]
            /\ pmeta' = [pmeta EXCEPT ![id].step = 2]
            /\ events' = Append(events, [op |-> "UpdateClusterView",
                                         node |-> pmeta[id].new, pid |-> id,
                                         ver |-> pview.version + 1])
            /\ UNCHANGED prun
       ELSE /\ IF pmeta[id].old \in ShardLeaders(pview)
                 THEN /\ pmeta' = [pmeta EXCEPT ![id].ver = pview.version]
                      /\ UNCHANGED prun
                 ELSE /\ pmeta' = [pmeta EXCEPT ![id].state = "failed"]
                      /\ prun' = prun \ {id}
            /\ UNCHANGED <<pview, events>>
  /\ UNCHANGED <<coordUp, ncrash, psent, ptables, notProc>>

\* TransferLeader, step 1: UpdateClusterView guarded by the snapshot's
\* version makes the new node the leader, in one transaction with the
\* progress. On a conflict the view is read again: the procedure fails when
\* its old node does not lead the shard any more, and retries otherwise.
TransferLeaderUpdate(id) ==
  /\ CanRun(id)
  /\ pmeta[id].kind = "TransferLeader"
  /\ pmeta[id].step = 1
  /\ IF pview.version = pmeta[id].ver
       THEN /\ pview' = [version |-> pview.version + 1,
                         shardNodes |->
                           {sn \in pview.shardNodes :
                              sn.role # "leader" /\ sn.node # pmeta[id].new}
                           \cup {[node |-> pmeta[id].new, role |-> "leader"]}]
            /\ pmeta' = [pmeta EXCEPT ![id].step = 2]
            /\ events' = Append(events, [op |-> "UpdateClusterView",
                                         node |-> pmeta[id].new, pid |-> id,
                                         ver |-> pview.version + 1])
            /\ UNCHANGED prun
       ELSE /\ IF pmeta[id].old \in ShardLeaders(pview)
                 THEN /\ pmeta' = [pmeta EXCEPT ![id].ver = pview.version]
                      /\ UNCHANGED prun
                 ELSE /\ pmeta' = [pmeta EXCEPT ![id].state = "failed"]
                      /\ prun' = prun \ {id}
            /\ UNCHANGED <<pview, events>>
  /\ UNCHANGED <<coordUp, ncrash, psent, ptables, notProc>>

\* The coordinator crashes: what the manager had in memory is lost.
ProcCrash ==
  /\ coordUp
  /\ ncrash < MaxCrashes
  /\ coordUp' = FALSE
  /\ ncrash' = ncrash + 1
  /\ prun' = {}
  /\ psent' = {}
  /\ events' = Append(events, [op |-> "crash", node |-> "none", pid |-> 0,
                               ver |-> pview.version])
  /\ UNCHANGED <<pmeta, ptables, pview, notProc>>

\* Mutant of ProcRestart: the manager starts with an empty queue.
ProcRestartEmpty ==
  /\ ~coordUp
  /\ coordUp' = TRUE
  /\ prun' = {}
  /\ UNCHANGED <<ncrash, pmeta, psent, ptables, pview, events, notProc>>

\* Restart: the manager lists the unfinished metas and resumes each from its
\* persisted step.
ProcRestart ==
  /\ ~coordUp
  /\ coordUp' = TRUE
  /\ prun' = {id \in ProcIDs : pmeta[id].state \in {"init", "running"}}
  /\ UNCHANGED <<ncrash, pmeta, psent, ptables, pview, events, notProc>>

NextProc ==
  \/ \E id \in ProcIDs, kind \in {"CreatePartitionTable", "DropPartitionTable"} :
       ProcSubmit(id, kind, "none", "none")
  \/ \E id \in ProcIDs, old \in LeaderNodes, new \in LeaderNodes :
       ProcSubmit(id, "TransferLeader", old, new)
  \/ \E id \in ProcIDs : CreatePartitionStep(id)
  \/ \E id \in ProcIDs : DropPartitionStep(id)
  \/ \E id \in ProcIDs : TransferLeaderDispatch(id)
  \/ \E id \in ProcIDs : TransferLeaderPersist(id)
  \/ \E id \in ProcIDs : TransferLeaderUpdate(id)
  \/ ProcCrash
  \/ ProcRestart

(***************************************************************************)
(* ID allocator: allocSchemaID, allocTableID                               *)
(***************************************************************************)

\* Alloc calls in one behaviour.
MaxAllocs == 4

\* Restarts of the coordinator in one behaviour.
MaxRestarts == 2

\* IDs of a range the allocator reserves with one write.
AllocStep == 2

\* Values of a schema ID, which allocSchemaID makes with uint32(ID) from the
\* 64-bit ID: 2^32 in the code, scaled down here so that the allocator gets
\* past it.
SchemaIDs == 4

\* NewCluster makes one allocator; nothing is reserved yet.
InitAlloc ==
  /\ allocKV = 0
  /\ allocNext = 0
  /\ allocEnd = 0
  /\ handed = <<>>
  /\ nrestart = 0

\* Allocator.Alloc: the next ID of the range in memory; when the range is
\* used up, the persisted end is moved by one step first and the new range
\* starts behind the old end.
AllocID ==
  IF allocNext = allocEnd THEN allocKV + 1 ELSE allocNext + 1

\* allocSchemaID returns uint32(ID), allocTableID returns ID.
Alloc(kind) ==
  /\ Len(handed) < MaxAllocs
  /\ allocNext' = AllocID
  /\ allocEnd' = IF allocNext = allocEnd THEN allocKV + AllocStep ELSE allocEnd
  /\ allocKV' = IF allocNext = allocEnd THEN allocKV + AllocStep ELSE allocKV
  /\ handed' = Append(handed,
                      [kind |-> kind, raw |-> AllocID,
                       id |-> IF kind = "schema" THEN AllocID % SchemaIDs ELSE AllocID])
  /\ UNCHANGED <<nrestart, notAlloc>>

\* Restart: the new allocator has no range in memory and starts from the
\* persisted end.
AllocRestart ==
  /\ nrestart < MaxRestarts
  /\ nrestart' = nrestart + 1
  /\ allocNext' = allocKV
  /\ allocEnd' = allocKV
  /\ UNCHANGED <<allocKV, handed, notAlloc>>

NextAlloc ==
  \/ Alloc("schema")
  \/ Alloc("table")
  \/ AllocRestart

(***************************************************************************)
(* API.getShardTables                                                      *)
(***************************************************************************)

\* Length of GetShardTablesRequest.ShardIDs.
MaxReqShards == 2

\* Shard IDs (uint32; a cluster's shards are numbered from 0).
GstShardIDs == 0..2

\* GetShardTablesRequest.ClusterName: a cluster the manager has, and one it has not.
GstClusterNames == {"c1", "nocluster"}

GstRequests ==
  [clusterName : GstClusterNames,
   shardIDs : UNION {[1..n -> GstShardIDs] : n \in 0..MaxReqShards},
   decodes : BOOLEAN]

\* No call has been made; the request and the topology are fixed.
InitGst ==
  gst = [req |-> [clusterName |-> "c1", shardIDs |-> <<>>, decodes |-> TRUE],
         shards |-> {}, ret |-> "none", shardIDs |-> <<>>]

\* No call has been made; any request, any topology.
InitGstAny ==
  gst \in [req : GstRequests, shards : SUBSET GstShardIDs, ret : {"none"}, shardIDs : {<<>>}]

\* The orders in which a range over the map ShardViewsMapping can yield its keys.
KeyOrders(S) == {f \in [1..Cardinality(S) -> S] : Range(f) = S}

\* shardIDs := make([]storage.ShardID, len(req.ShardIDs)) followed by the appends:
\* make gives a slice of that many zero values, append puts the IDs behind them.
requestedShardIDs(l) == [i \in 1..Len(l) |-> 0] \o l

\* json.NewDecoder(req.Body).Decode fails.
GetShardTablesParseFail ==
  /\ gst.ret = "none"
  /\ ~gst.req.decodes
  /\ gst' = [gst EXCEPT !.ret = "ErrParseRequest"]
  /\ UNCHANGED <<gts, conv, notFn>>

\* clusterManager.GetCluster fails; the error is reported as ErrParseRequest too.
GetShardTablesNoCluster ==
  /\ gst.ret = "none"
  /\ gst.req.decodes
  /\ gst.req.clusterName # "c1"
  /\ gst' = [gst EXCEPT !.ret = "ErrParseRequest"]
  /\ UNCHANGED <<gts, conv, notFn>>

\* The shard IDs are collected and GetShardTables(shardIDs) is called.
GetShardTablesQuery ==
  /\ gst.ret = "none"
  /\ gst.req.decodes
  /\ gst.req.clusterName = "c1"
  /\ \E order \in KeyOrders(gst.shards) :
       gst' = [gst EXCEPT !.ret = "ok",
                          !.shardIDs = IF Len(gst.req.shardIDs) # 0
                                         THEN requestedShardIDs(gst.req.shardIDs)
                                         ELSE requestedShardIDs(<<>>) \o order]
  /\ UNCHANGED <<gts, conv, notFn>>

NextGst ==
  \/ GetShardTablesParseFail
  \/ GetShardTablesNoCluster
  \/ GetShardTablesQuery

(***************************************************************************)
(* Cluster.GetTables over the shards updateCacheLocked has cached          *)
(***************************************************************************)

\* Entries of ClusterTopology.ShardView.
MaxShardView == 2

\* Length of the shardIDs argument of GetTables.
MaxGetShards == 2

GtsShardIDs == {1, 2}

GtsNodes == {"n1", "n2"}

ShardRoles == {"LEADER", "FOLLOWER"}

\* Table IDs a shard's topology can name.
GtsTableIDs == {11}

\* clusterpb.Shard: one (shard, node) pair of the topology and its role.
ShardEntries == [id : GtsShardIDs, node : GtsNodes, role : ShardRoles]

\* The ShardView lists in which no (shard, node) pair is there twice.
ShardViews ==
  {v \in UNION {[1..n -> ShardEntries] : n \in 0..MaxShardView} :
     \A i, j \in DOMAIN v : (v[i].id = v[j].id /\ v[i].node = v[j].node) => i = j}

NoGtsCall == [shardIDs |-> <<>>, nodeName |-> "none"]

NoGtsReturn == [err |-> "none", shardTables |-> {}]

GtsStart(view, nodesLoaded, tables) ==
  [view |-> view, nodesLoaded |-> nodesLoaded, tables |-> tables,
   loaded |-> FALSE, shardsCache |-> <<>>, req |-> NoGtsCall, ret |-> NoGtsReturn]

\* A new Cluster over an empty topology.
InitGts ==
  gts = GtsStart(<<>>, {}, [s \in GtsShardIDs |-> {}])

\* A new Cluster; what its Load will read is any topology, any node rows and
\* any tables of the shards.
InitGtsAny ==
  \E view \in ShardViews, nodesLoaded \in SUBSET GtsNodes,
     tables \in [GtsShardIDs -> SUBSET GtsTableIDs] :
    gts = GtsStart(view, nodesLoaded, tables)

\* The entries of a list that are in keep, in the order of the list.
RECURSIVE Filter(_, _)
Filter(list, keep) ==
  IF list = <<>> THEN <<>>
  ELSE IF Head(list) \in keep
    THEN <<Head(list)>> \o Filter(Tail(list), keep)
    ELSE Filter(Tail(list), keep)

\* loadClusterTopologyLocked: shardMap[shard.Id] = append(shardMap[shard.Id], shard).
shardMap(view) ==
  [s \in {view[i].id : i \in DOMAIN view} |->
     Filter(view, {e \in ShardEntries : e.id = s})]

\* updateCacheLocked, shard loop: meta is the shard's whole list of the
\* topology, nodes the nodes of the list that are in nodesCache.
LoadedShards(view, nodesLoaded, tables) ==
  [s \in DOMAIN shardMap(view) |->
     LET known == Filter(shardMap(view)[s], {e \in ShardEntries : e.node \in nodesLoaded})
     IN  [meta |-> shardMap(view)[s],
          nodes |-> [i \in DOMAIN known |-> known[i].node],
          tables |-> tables[s]]]

\* GetTables: the loop over shardIDs; done holds the entries of the map
\* shardTables that have been set.
RECURSIVE GetTablesLoop(_, _, _, _)
GetTablesLoop(cache, shardIDs, nodeName, done) ==
  IF shardIDs = <<>> THEN [err |-> "none", shardTables |-> done]
  ELSE IF Head(shardIDs) \notin DOMAIN cache
    THEN [err |-> "ErrShardNotFound", shardTables |-> {}]
  ELSE LET shard == cache[Head(shardIDs)]
           at == {i \in DOMAIN shard.nodes : shard.nodes[i] = nodeName}
       IN  IF at = {}
             THEN [err |-> "ErrNodeNotFound", shardTables |-> {}]
             ELSE LET i == CHOOSE k \in at : \A m \in at : k <= m
                  IN  GetTablesLoop(cache, Tail(shardIDs), nodeName,
                        {r \in done : r.shard # Head(shardIDs)} \cup
                          {[shard |-> Head(shardIDs),
                            shardRole |-> shard.meta[i].role,
                            tables |-> shard.tables]})

GetTables(cache, shardIDs, nodeName) == GetTablesLoop(cache, shardIDs, nodeName, {})

\* Load: updateCacheLocked fills shardsCache.
GtsUpdateCache ==
  /\ ~gts.loaded
  /\ gts' = [gts EXCEPT !.loaded = TRUE,
                        !.shardsCache = LoadedShards(gts.view, gts.nodesLoaded, gts.tables)]
  /\ UNCHANGED <<gst, conv, notFn>>

\* A call of GetTables(shardIDs, nodeName).
GtsGetTables(shardIDs, nodeName) ==
  /\ gts.loaded
  /\ gts.req = NoGtsCall
  /\ gts' = [gts EXCEPT !.req = [shardIDs |-> shardIDs, nodeName |-> nodeName],
                        !.ret = GetTables(gts.shardsCache, shardIDs, nodeName)]
  /\ UNCHANGED <<gst, conv, notFn>>

NextGts ==
  \/ GtsUpdateCache
  \/ \E shardIDs \in UNION {[1..n -> GtsShardIDs] : n \in 1..MaxGetShards},
        nodeName \in GtsNodes :
       GtsGetTables(shardIDs, nodeName)

(***************************************************************************)
(* storage/types.go: conversions to and from the protobuf enums            *)
(***************************************************************************)

ConvKinds == {"ShardStatus", "NodeState", "ShardRole", "ClusterState"}

\* The constants of each type; "Invalid" is an int that is none of them.
ConvValues ==
  [ShardStatus |-> {"ShardStatusUnknown", "ShardStatusReady", "ShardStatusPartialOpen",
                    "Invalid"},
   NodeState |-> {"NodeStateUnknown", "NodeStateOnline", "NodeStateOffline", "Invalid"},
   ShardRole |-> {"ShardRoleLeader", "ShardRoleFollower", "Invalid"},
   ClusterState |-> {"ClusterStateEmpty", "ClusterStateStable", "ClusterStatePrepare",
                     "Invalid"}]

\* The protobuf values of each type as they come from the wire; the status
\* of a ShardInfo is a pointer and may be nil; "PB_Invalid" is a number the
\* enum does not name.
ConvPBValues ==
  [ShardStatus |-> {"nil", "ShardInfo_Ready", "ShardInfo_PartialOpen", "PB_Invalid"},
   NodeState |-> {"NodeState_ONLINE", "NodeState_OFFLINE", "PB_Invalid"},
   ShardRole |-> {"ShardRole_LEADER", "ShardRole_FOLLOWER", "PB_Invalid"},
   ClusterState |-> {"ClusterView_EMPTY", "ClusterView_STABLE",
                     "ClusterView_PREPARE_REBALANCE", "ClusterView_AWAITING_OPEN",
                     "ClusterView_AWAITING_CLOSE", "PB_Invalid"}]

convertClusterStateToPB(state) ==
  CASE state = "ClusterStateEmpty" -> "ClusterView_EMPTY"
    [] state = "ClusterStateStable" -> "ClusterView_STABLE"
    [] state = "ClusterStatePrepare" -> "ClusterView_PREPARE_REBALANCE"
    [] OTHER -> "ClusterView_EMPTY"

\* A convertClusterStatePB that knows the three states of the storage package only.
convertClusterStatePBThreeStates(state) ==
  CASE state = "ClusterView_EMPTY" -> "ClusterStateEmpty"
    [] state = "ClusterView_PREPARE_REBALANCE" -> "ClusterStatePrepare"
    [] state = "ClusterView_STABLE" -> "ClusterStateStable"
    [] OTHER -> "panic"

convertClusterStatePB(state) ==
  CASE state \in {"ClusterView_EMPTY", "ClusterView_AWAITING_OPEN",
                  "ClusterView_AWAITING_CLOSE"} -> "ClusterStateEmpty"
    [] state = "ClusterView_PREPARE_REBALANCE" -> "ClusterStatePrepare"
    [] state = "ClusterView_STABLE" -> "ClusterStateStable"
    [] OTHER -> "panic"

ConvertShardRoleToPB(role) ==
  CASE role = "ShardRoleLeader" -> "ShardRole_LEADER"
    [] role = "ShardRoleFollower" -> "ShardRole_FOLLOWER"
    [] OTHER -> "ShardRole_FOLLOWER"

ConvertShardRolePB(role) ==
  CASE role = "ShardRole_LEADER" -> "ShardRoleLeader"
    [] role = "ShardRole_FOLLOWER" -> "ShardRoleFollower"
    [] OTHER -> "ShardRoleFollower"

ConvertShardStatusPB(status) ==
  IF status = "nil" THEN "ShardStatusReady"
  ELSE CASE status = "ShardInfo_PartialOpen" -> "ShardStatusPartialOpen"
         [] status = "ShardInfo_Ready" -> "ShardStatusReady"
         [] OTHER -> "ShardStatusReady"

ConvertShardStatusToPB(status) ==
  CASE status = "ShardStatusPartialOpen" -> "ShardInfo_PartialOpen"
    [] status = "ShardStatusReady" -> "ShardInfo_Ready"
    [] status = "ShardStatusUnknown" -> "ShardInfo_Ready"
    [] OTHER -> "ShardInfo_Ready"

convertNodeStateToPB(state) ==
  CASE state = "NodeStateUnknown" -> "NodeState_OFFLINE"
    [] state = "NodeStateOnline" -> "NodeState_ONLINE"
    [] state = "NodeStateOffline" -> "NodeState_OFFLINE"
    [] OTHER -> "NodeState_OFFLINE"

convertNodeStatePB(state) ==
  CASE state = "NodeState_ONLINE" -> "NodeStateOnline"
    [] state = "NodeState_OFFLINE" -> "NodeStateOffline"
    [] OTHER -> "NodeStateOffline"

\* The converter of each type to its protobuf value.
ToPB(kind, val) ==
  CASE kind = "ShardStatus" -> ConvertShardStatusToPB(val)
    [] kind = "NodeState" -> convertNodeStateToPB(val)
    [] kind = "ShardRole" -> ConvertShardRoleToPB(val)
    [] kind = "ClusterState" -> convertClusterStateToPB(val)

\* The converter of each type from its protobuf value.
FromPB(kind, pb) ==
  CASE kind = "ShardStatus" -> ConvertShardStatusPB(pb)
    [] kind = "NodeState" -> convertNodeStatePB(pb)
    [] kind = "ShardRole" -> ConvertShardRolePB(pb)
    [] kind = "ClusterState" -> convertClusterStatePB(pb)

\* Nothing is being converted.
InitConv ==
  conv = [k \in ConvKinds |-> [val |-> "none", pb |-> "none", back |-> "none"]]

\* A value of the storage package to be written, or a protobuf value that has
\* been read.
ConvStarts(kind) ==
  {[val |-> v, pb |-> "none", back |-> "none"] : v \in ConvValues[kind]} \cup
  {[val |-> "none", pb |-> p, back |-> "none"] : p \in ConvPBValues[kind]}

\* One such value of every type.
InitConvAny ==
  conv \in [ShardStatus : ConvStarts("ShardStatus"), NodeState : ConvStarts("NodeState"),
            ShardRole : ConvStarts("ShardRole"), ClusterState : ConvStarts("ClusterState")]

\* A value is converted to its protobuf value (convertNodeToPB,
\* convertShardNodeToPB, convertClusterViewToPB, ...).
ConvertToPB(kind) ==
  /\ conv[kind].val # "none"
  /\ conv[kind].pb = "none"
  /\ conv' = [conv EXCEPT ![kind].pb = ToPB(kind, conv[kind].val)]
  /\ UNCHANGED <<gst, gts, notFn>>

\* A protobuf value is converted back (convertNodePB, ConvertShardNodePB, ...).
ConvertFromPB(kind) ==
  /\ conv[kind].pb # "none"
  /\ conv[kind].back = "none"
  /\ conv' = [conv EXCEPT ![kind].back = FromPB(kind, conv[kind].pb)]
  /\ UNCHANGED <<gst, gts, notFn>>

NextConv ==
  \/ \E kind \in ConvKinds : ConvertToPB(kind)
  \/ \E kind \in ConvKinds : ConvertFromPB(kind)

(***************************************************************************)
(* Specifications                                                          *)
(***************************************************************************)

\* This instance is the leader and stays the leader.
InitMemberLeader ==
  /\ leader = "local"
  /\ nchanges = MaxLeaderChanges
  /\ conns = [e \in Endpoints |-> 0]
  /\ dialed = 0

\* Initial states: this instance is the leader for good, or any instance is the leader.
\* The stateless handlers and functions before any call.
InitFn == InitGst /\ InitGts /\ InitConv

InitRest ==
  /\ InitRpc /\ InitWeb /\ InitDisp /\ InitStore /\ InitCluster /\ InitUpd
  /\ InitScatter /\ InitProc /\ InitAlloc /\ InitFn

InitAsLeader == InitLock /\ InitMemberLeader /\ InitHB /\ InitRest

Init == InitLock /\ InitMember /\ InitHB /\ InitRest

SpecLock == InitAsLeader /\ [][NextLock]_vars

SpecHB == Init /\ [][NextHB]_vars

SpecHBLeader == InitAsLeader /\ [][NextHBLeader]_vars

SpecRpc == Init /\ [][NextRpc]_vars

SpecWeb == Init /\ [][NextWeb]_vars

SpecDisp == InitAsLeader /\ [][NextDisp]_vars

SpecCluster == InitAsLeader /\ [][NextCluster]_vars

SpecStore == InitAsLeader /\ [][NextStore]_vars

\* A Cluster made by NewCluster over a storage that has a schema already.
InitReload ==
  /\ InitLock /\ InitMemberLeader /\ InitHB /\ InitRpc /\ InitWeb /\ InitDisp
  /\ InitStoreKept /\ InitCluster /\ InitUpd
  /\ InitScatter /\ InitProc /\ InitAlloc /\ InitFn

SpecReload == InitReload /\ [][NextCluster]_vars

\* The other subsystems at rest.
InitQuiet ==
  /\ InitLock /\ InitMemberLeader /\ InitHB /\ InitRpc /\ InitWeb /\ InitDisp
  /\ InitStore /\ InitCluster /\ InitUpd

InitScatterSpec == InitQuiet /\ InitScatterAny /\ InitProc /\ InitAlloc /\ InitFn

SpecScatter == InitScatterSpec /\ [][NextScatter]_vars

InitProcSpec == InitQuiet /\ InitScatter /\ InitProc /\ InitAlloc /\ InitFn

SpecAlloc == InitProcSpec /\ [][NextAlloc]_vars

SpecProc == InitProcSpec /\ [][NextProc]_vars

\* The other subsystems of the coordinator at rest.
InitCoordQuiet == InitQuiet /\ InitScatter /\ InitProc /\ InitAlloc

InitGstSpec == InitCoordQuiet /\ InitGstAny /\ InitGts /\ InitConv

SpecGst == InitGstSpec /\ [][NextGst]_vars

InitGtsSpec == InitCoordQuiet /\ InitGst /\ InitGtsAny /\ InitConv

SpecGts == InitGtsSpec /\ [][NextGts]_vars

InitConvSpec == InitCoordQuiet /\ InitGst /\ InitGts /\ InitConvAny

SpecConv == InitConvSpec /\ [][NextConv]_vars

\* The manager keeps running the procedures it has, and a coordinator that
\* is down is started again.
SpecProcFair ==
  /\ InitProcSpec
  /\ [][NextProc]_vars
  /\ WF_vars(ProcRestart)
  /\ \A id \in ProcIDs :
       /\ WF_vars(CreatePartitionStep(id)) /\ WF_vars(DropPartitionStep(id))
       /\ WF_vars(TransferLeaderDispatch(id)) /\ WF_vars(TransferLeaderPersist(id))
       /\ WF_vars(TransferLeaderUpdate(id))

\* A procedure that can take its next step takes it.
SpecScatterFair ==
  /\ InitScatterSpec
  /\ [][NextScatter]_vars
  /\ \A p \in ScatterProcs : WF_vars(ScatterCheck(p)) /\ WF_vars(ScatterCommit(p))

(***************************************************************************)
(* Claims about EntryLock                                                  *)
(***************************************************************************)

\* C1: TryLock(S) returns true only if no entry of S was in the lock set when the
\* call looked at it; and as long as every UnLock names entries its caller holds,
\* the entry sets held by distinct procedures are pairwise disjoint and, whenever
\* no call is inside the mutex, every held entry is in the lock set.
C1_TryLockExclusive ==
  /\ \A p \in Procs :
       (lpc[p] = "tl_unlock" /\ lret[p] = "true") => Range(locks[p]) \cap lpre[p] = {}
  /\ ~misuse =>
       /\ \A p, q \in Procs : p # q => holds[p] \cap holds[q] = {}
       /\ lock = "free" => \A p \in Procs : holds[p] \subseteq entryLocks

\* C1 witness: one procedure holds entry 1, the other has just been refused an
\* overlapping list and a disjoint entry is held by it.
C1_Witness ==
  /\ ~misuse
  /\ holds["p1"] = {1}
  /\ holds["p2"] = {2}
  /\ lpc["p2"] = "tl_unlock" /\ lret["p2"] = "false" /\ 1 \in Range(locks["p2"])

\* C2: TryLock is all-or-nothing: when it returns false some entry of S was held and
\* the lock set is what it was at the start of the call; when it returns true every
\* entry of S is in the lock set; and while a call is between its first and last
\* insertion it holds the mutex, so that no other call is reading or writing the set.
C2_TryLockAllOrNothing ==
  /\ \A p \in Procs :
       (lpc[p] = "tl_unlock" /\ lret[p] = "false") =>
          /\ entryLocks = lpre[p]
          /\ Range(locks[p]) \cap lpre[p] # {}
  /\ \A p \in Procs :
       (lpc[p] = "tl_unlock" /\ lret[p] = "true") =>
          /\ Range(locks[p]) \subseteq entryLocks
          /\ entryLocks = lpre[p] \cup Range(locks[p])
  /\ \A p \in Procs :
       lpc[p] \in {"tl_check", "tl_add", "tl_unlock", "ul_check", "ul_del", "ul_unlock"}
          => lock = p

\* C2 witness: a TryLock of <<2, 1>> is refused because of its second entry, an
\* entry the other procedure holds, after its first entry passed the check.
C2_Witness ==
  /\ lpc["p1"] = "tl_unlock" /\ lret["p1"] = "false"
  /\ locks["p1"] = <<2, 1>>
  /\ holds["p2"] = {1}
  /\ entryLocks = {1}

\* C3: a returning UnLock(S) has removed exactly the entries of S, all of which were
\* held; a panicking UnLock(S) found an entry of S that was not held and has removed
\* nothing; after the panic the mutex is released.
C3_UnLockContract ==
  /\ \A p \in Procs :
       (lpc[p] = "ul_unlock" /\ lret[p] = "ok") =>
          /\ Range(locks[p]) \subseteq lpre[p]
          /\ entryLocks = lpre[p] \ Range(locks[p])
  /\ \A p \in Procs :
       (lpc[p] = "ul_unlock" /\ lret[p] = "panic") =>
          /\ ~(Range(locks[p]) \subseteq lpre[p])
          /\ entryLocks = lpre[p]
  /\ \A p \in Procs : lpc[p] = "panicked" => lock # p
  /\ \A p \in Procs : lpc[p] = "ul_del" => Range(locks[p]) \subseteq lpre[p]

\* C3 witness: UnLock(<<1, 2>>) panics on entry 2 while entry 1 is held, and
\* entry 1 is still in the lock set once the mutex has been released.
C3_Witness ==
  /\ lpc["p1"] = "panicked"
  /\ locks["p1"] = <<1, 2>>
  /\ lpre["p1"] = {1}
  /\ entryLocks = {1}
  /\ lock = "free"

(***************************************************************************)
(* Claims about the heartbeat stream                                       *)
(***************************************************************************)

\* C4: on the leader the frames of one stream are handled one at a time in the order
\* received: while ProcessHeartbeat runs for a frame the handler is inside that call,
\* at most one call per stream is in progress, and the frames passed to
\* ProcessHeartbeat are in ascending order of receipt.
C4_FramesSequential ==
  \A s \in Streams :
    /\ Cardinality(hb[s].inflight) <= 1
    /\ hb[s].pc = "processing" => hb[s].inflight = {hb[s].req.idx}
    /\ hb[s].pc # "processing" => hb[s].inflight = {}
    /\ \A i \in 1..Len(hb[s].procLog) :
         /\ hb[s].procLog[i].idx <= hb[s].nrecv
         /\ i > 1 => hb[s].procLog[i - 1].idx < hb[s].procLog[i].idx

\* C4 witness: s1 processes its second frame, after its first has returned, while
\* s2 is inside ProcessHeartbeat for its first frame.
C4_Witness ==
  /\ hb["s1"].pc = "processing" /\ Len(hb["s1"].procLog) = 2
  /\ hb["s2"].pc = "processing" /\ Len(hb["s2"].procLog) = 1

\* C5: the first frame handled by this instance has caused a BindHeartbeatStream call
\* for the node it names and the sender of its stream before its ProcessHeartbeat; and
\* a successful bind is the last bind call of its stream.
C5_BindOnFirstFrame ==
  \A s \in Streams :
    /\ hb[s].procLog # <<>> =>
         /\ hb[s].bindLog # <<>>
         /\ hb[s].bindLog[1].frame = hb[s].procLog[1].idx
         /\ hb[s].bindLog[1].node = hb[s].procLog[1].node
         /\ hb[s].bindLog[1].sender = s
    /\ \A i \in 1..Len(hb[s].bindLog) : i < Len(hb[s].bindLog) => ~hb[s].bindLog[i].ok
    /\ hb[s].bound <=>
         (hb[s].bindLog # <<>> /\ hb[s].bindLog[Len(hb[s].bindLog)].ok)
    /\ hb[s].bound => hb[s].node = hb[s].bindLog[Len(hb[s].bindLog)].node

\* C5 witness: two frames have been processed and the only bind call is the
\* successful one of the first frame.
C5_Witness ==
  /\ Len(hb["s1"].procLog) = 2
  /\ Len(hb["s1"].bindLog) = 1
  /\ hb["s1"].bindLog[1].ok /\ hb["s1"].bindLog[1].frame = 1

\* C6: when NodeHeartbeat has returned, a bound stream has had exactly one
\* UnbindHeartbeatStream call, for the bound node and under a context not yet
\* cancelled, and a stream that never bound has had none; no unbind happens before
\* the handler returns.
C6_UnbindOnceOnReturn ==
  \A s \in Streams :
    /\ hb[s].pc \in {"cancel", "done"} =>
         IF hb[s].bound
           THEN hb[s].unbindLog = <<[node |-> hb[s].node, ctxCancelled |-> FALSE]>>
           ELSE hb[s].unbindLog = <<>>
    /\ hb[s].pc \notin {"cancel", "done"} => hb[s].unbindLog = <<>>
    /\ hb[s].ctxCancelled <=> hb[s].pc = "done"

\* C6 witness: a stream bound while this instance was the leader returns on a
\* forwarding error after the leader has moved.
C6_Witness ==
  /\ hb["s1"].pc = "done"
  /\ hb["s1"].bound
  /\ hb["s1"].exitCause \in ForwardingErrors
  /\ Len(hb["s1"].unbindLog) = 1

\* C7: a failed or timed-out BindHeartbeatStream or ProcessHeartbeat does not end the
\* stream: the handler returns only on EOF, on a receive error or on a forwarding
\* error, and until then it keeps on handling frames.
C7_FailureFailsTheFrameOnly ==
  \A s \in Streams :
    /\ hb[s].pc \in {"unbind", "cancel", "done"} => hb[s].exitCause \in {"eof", "recv"} \cup ForwardingErrors
    /\ hb[s].pc \notin {"unbind", "cancel", "done"} => hb[s].exitCause = "none"

\* C7 witness: the bind and the processing of frame 1 have failed, and frame 2 is
\* being processed on the same stream.
C7_Witness ==
  /\ 1 \in hb["s1"].failed
  /\ Len(hb["s1"].bindLog) = 2 /\ ~hb["s1"].bindLog[1].ok
  /\ hb["s1"].pc = "processing" /\ hb["s1"].req.idx = 2

\* C9: once NodeHeartbeat has returned, no forwarded stream it opened is still open.
C9_NoForwardedStreamLeftOpen ==
  \A s \in Streams :
    hb[s].pc = "done" => \A i \in DOMAIN hb[s].fwd : hb[s].fwd[i].state # "open"


(***************************************************************************)
(* Claims about the unary gRPC handlers                                    *)
(***************************************************************************)

\* C8 (as stated): every finished unary request of a forwarding handler was,
\* on a non-leader, sent to the leader's endpoint and answered with the
\* leader's answer without a call to the local cluster manager, and, on the
\* leader, handled locally and not sent anywhere.
C8_ForwardOrLocal ==
  \A r \in Reqs :
    (rpc[r].pc = "done" /\ ~rpc[r].stub) =>
      /\ rpc[r].leaderAt # "local" =>
           /\ rpc[r].fwdTo = rpc[r].leaderAt
           /\ rpc[r].resp = rpc[r].answer
           /\ rpc[r].local = 0
      /\ rpc[r].leaderAt = "local" =>
           /\ rpc[r].local = 1
           /\ rpc[r].fwdTo = "none"

\* C8 (amended): a unary request of a forwarding handler is never both sent to
\* a peer and handled locally.  When GetLeader fails, or names another
\* instance to which no connection can be made, the handler returns an error
\* header and the request is neither sent nor handled locally.  Otherwise,
\* when GetLeader names another instance the request is sent to that endpoint
\* and the leader's answer is returned unchanged with no call to the local
\* cluster manager; when GetLeader says the instance is the leader the
\* request is handled locally, once, and is not sent.
C8_ForwardOrLocalUnlessError ==
  \A r \in Reqs :
    /\ ~(rpc[r].fwdTo # "none" /\ rpc[r].local > 0)
    /\ (rpc[r].pc = "done" /\ ~rpc[r].stub) =>
         /\ rpc[r].seen = "fail" =>
              rpc[r].fwdTo = "none" /\ rpc[r].local = 0 /\ rpc[r].resp = "errhdr"
         /\ (rpc[r].seen \in Endpoints /\ rpc[r].cc = 0) =>
              rpc[r].fwdTo = "none" /\ rpc[r].local = 0 /\ rpc[r].resp = "errhdr"
         /\ (rpc[r].seen \in Endpoints /\ rpc[r].cc # 0) =>
              /\ rpc[r].fwdTo = rpc[r].seen
              /\ rpc[r].seen = rpc[r].leaderAt
              /\ rpc[r].answer \in LeaderAnswers
              /\ rpc[r].resp = rpc[r].answer
              /\ rpc[r].local = 0
         /\ rpc[r].seen = "local" =>
              /\ rpc[r].leaderAt = "local"
              /\ rpc[r].local = 1
              /\ rpc[r].fwdTo = "none"
              /\ rpc[r].resp \in {"local_ok", "errhdr"}

\* One request was forwarded and answered by the leader, another one was
\* handled locally after the instance had become the leader.
C8_Witness ==
  /\ rpc["r1"].pc = "done" /\ rpc["r1"].fwdTo \in Endpoints
  /\ rpc["r1"].resp = "leader_ok"
  /\ rpc["r2"].pc = "done" /\ rpc["r2"].local = 1 /\ rpc["r2"].resp = "local_ok"

(***************************************************************************)
(* Claims about the HTTP API                                               *)
(***************************************************************************)

C11_DispatchOnceNoRetry ==
  \A d \in DispatchCalls :
    /\ disp[d].rpcs <= 1
    /\ disp[d].pc = "done" =>
         /\ disp[d].ret.err = "nil" <=>
              (disp[d].rpcs = 1 /\ disp[d].resp.kind = "response" /\ disp[d].resp.code = 0)
         /\ (disp[d].resp.kind = "response" /\ disp[d].resp.code # 0) =>
              (disp[d].ret.err = "ErrDispatch" /\ disp[d].ret.cause = disp[d].resp.error)
         /\ disp[d].op \in VersionOps =>
              disp[d].ret.version = IF disp[d].ret.err = "nil"
                                      THEN disp[d].resp.version ELSE 0

\* One call got the node's version back, another one an ErrDispatch although
\* the refusing response carried a version.
C11_Witness ==
  /\ disp["d1"].pc = "done" /\ disp["d1"].op = "CreateTableOnShard"
  /\ disp["d1"].ret = [err |-> "nil", cause |-> "", version |-> 2]
  /\ disp["d2"].pc = "done" /\ disp["d2"].op = "DropTableOnShard"
  /\ disp["d2"].resp.version = 2
  /\ disp["d2"].ret = [err |-> "ErrDispatch", cause |-> "remote error", version |-> 0]

\* C12 (as stated): callers that got a connection for the same address use
\* one and the same connection, and it is the one the cache holds.
C12_OneConnectionPerEndpoint ==
  \A d1, d2 \in DispatchCalls :
    (disp[d1].pc \in {"rpc", "done"} /\ disp[d2].pc \in {"rpc", "done"}
       /\ disp[d1].cc # 0 /\ disp[d2].cc # 0 /\ disp[d1].addr = disp[d2].addr)
      => disp[d1].cc = disp[d2].cc


(***************************************************************************)
(* Claims about the metadata of a cluster                                  *)
(***************************************************************************)

\* C13 (as stated): when no call is in progress and none has panicked, every
\* table of the cache is in the table set of exactly one shard, and the ID of
\* a table whose DropTable succeeded is in none.
C13_TableInExactlyOneShard ==
  ((\A c \in Callers : cl[c].pc = "idle") /\ ~crashed) =>
    /\ \A s \in SchemaNames, n \in TableNames :
         tableMap[s][n] # NoTable =>
           Cardinality({sh \in shardsLoaded : tableMap[s][n].id \in shardTables[sh]}) = 1
    /\ \A dr \in dropRets :
         dr.ret = "ok" => \A sh \in ShardIDs : dr.id \notin shardTables[sh]

\* C14: an update of a shard view or of the cluster view succeeds only with
\* the stored version as prior version; a refused update changes nothing; a
\* view never changes without its version growing.
C14_VersionedUpdates ==
  [][/\ \A s \in ShardIDs :
          \/ stShardViews'[s] = stShardViews[s]
          \/ stShardViews'[s].version > stShardViews[s].version
     /\ \/ stTopology' = stTopology
        \/ stTopology'.version > stTopology.version
     /\ \A u \in Updaters :
          (upd[u].pc = "cas" /\ upd'[u].pc = "idle") =>
            /\ upd'[u].res = "ok" =>
                 upd[u].prev = (IF upd[u].kind = "shard"
                                  THEN stShardViews[upd[u].shard].version
                                  ELSE stTopology.version)
            /\ upd'[u].res # "ok" =>
                 (stShardViews' = stShardViews /\ stTopology' = stTopology)]_vars

\* Two updates of the same shard view raced: one won, the other was refused.
C14_Witness ==
  /\ upd["u1"].pc = "idle" /\ upd["u1"].kind = "shard" /\ upd["u1"].res = "ok"
  /\ upd["u2"].pc = "idle" /\ upd["u2"].kind = "shard" /\ upd["u2"].res = "conflict"
  /\ upd["u1"].shard = upd["u2"].shard
  /\ upd["u1"].prev = upd["u2"].prev
  /\ stShardViews[upd["u1"].shard].version = upd["u1"].prev + 1

\* C15 (as stated): two CreateTable calls with the same schema, name and shard
\* return the same table ID, and the second one leaves the shard's table set
\* as the first one made it.
C15_CreateTableIdempotent ==
  \A a, b \in created :
    (a.schema = b.schema /\ a.name = b.name /\ a.shard = b.shard) =>
      /\ a.id = b.id
      /\ a.pre = b.pre

\* C16 (as stated): once a table created on a shard has been dropped, and
\* nothing else was created on that shard, the shard's table set is what it
\* was before the create.
C16_CreateThenDropRestores ==
  \A cr \in created :
    (/\ \A x \in created : x.shard = cr.shard => x = cr
     /\ \E dr \in dropRets :
          dr.schema = cr.schema /\ dr.name = cr.name /\ dr.id = cr.id /\ dr.existed)
      => shardTables[cr.shard] = cr.pre

\* C17 (as stated): DropTable of a table that exists in a schema that exists
\* returns success and leaves the table in no map, no row and no shard.
C17_DropTableSucceeds ==
  \A dr \in dropRets : dr.existed => (dr.ret = "ok" /\ dr.gone)

\* C18 (as stated): all CreateSchema calls with one name return the same ID
\* and one schema row with that name is persisted.
C18_CreateSchemaIdempotent ==
  /\ \A a, b \in schemaRets : a.name = b.name => a.id = b.id
  /\ \A n \in SchemaNames : Cardinality({r \in stSchemas : r.name = n}) <= 1

\* C19: a step of RegisterNode changes nothing but the row and the cache entry
\* of its node, and in the cache entry nothing but the stats it was given:
\* the topology, the shard views, the schemas, the tables, the shards of the
\* cache and the shard IDs attached to the node stay as they are.
C19_RegisterNodeFrame ==
  [][\A c \in Callers :
       (cl[c].op = "RegisterNode" /\ cl'[c] # cl[c]) =>
         /\ stTopology' = stTopology
         /\ stShardViews' = stShardViews
         /\ stSchemas' = stSchemas
         /\ stTables' = stTables
         /\ nextID' = nextID
         /\ schemasCache' = schemasCache
         /\ tableMap' = tableMap
         /\ shardsLoaded' = shardsLoaded
         /\ shardTables' = shardTables
         /\ \A n \in NodeNames \ {cl[c].node} :
              stNodes'[n] = stNodes[n] /\ nodesCache'[n] = nodesCache[n]
         /\ nodesCache'[cl[c].node].shardIDs = nodesCache[cl[c].node].shardIDs
         /\ cl[c].pc = "rn_cache" =>
              /\ nodesCache'[cl[c].node].present
              /\ nodesCache'[cl[c].node].lease = cl[c].lease
              /\ stNodes[cl[c].node] # 0]_vars

\* A node that was loaded with its shards has been registered again with
\* another lease.
C19_Witness ==
  /\ lastRet.op = "RegisterNode" /\ lastRet.ret = "ok"
  /\ nodesCache["n1"].present
  /\ nodesCache["n1"].shardIDs[1] > 0
  /\ nodesCache["n1"].lease = 2
  /\ stNodes["n1"] = 2
  /\ nops = 3

\* C20 (as stated): no CreateSchema, CreateTable, DropTable or RegisterNode
\* call holds the writer lock while it allocates an ID or calls the storage.
C20_NoLockAcrossKV ==
  \A c \in Callers :
    cl[c].pc \in {"cs_alloc", "cs_store", "ct_alloc", "ct_store", "rn_store"}
      => cwriter # c

\* C21: in CreateSchema, CreateTable, DropTable and RegisterNode the cache is
\* written only by the caller that holds the writer lock, at the step that
\* follows its write to the storage, whose row is there by then; a call whose
\* ID allocation or storage write fails returns an error from that very step,
\* which leaves every map of the cache as it is, and has not reached its cache
\* step before.
C21_StoreThenCacheUnderLock ==
  [][/\ <<schemasCache, tableMap, shardsLoaded, shardTables, nodesCache>>' #
          <<schemasCache, tableMap, shardsLoaded, shardTables, nodesCache>> =>
          \E c \in Callers :
            /\ cwriter = c
            /\ cl[c].pc \in {"ld_cache", "cs_cache", "ct_cache", "gt_cache", "rn_cache"}
            /\ cl[c].pc = "cs_cache" =>
                 [id |-> cl[c].newid, name |-> cl[c].schema] \in stSchemas
            /\ cl[c].pc = "ct_cache" =>
                 [sid |-> cl[c].sid, name |-> cl[c].table, id |-> cl[c].newid,
                  shard |-> cl[c].shard] \in stTables
            /\ cl[c].pc = "rn_cache" => stNodes[cl[c].node] # 0
     /\ \A c \in Callers :
          (/\ cl[c].pc \in {"cs_alloc", "cs_store", "ct_alloc", "ct_store", "rn_store"}
           /\ cl'[c].pc = "idle") =>
            /\ lastRet' = Returned(c, cl[c].op, "error")
            /\ <<schemasCache, tableMap, shardsLoaded, shardTables, nodesCache>>' =
                 <<schemasCache, tableMap, shardsLoaded, shardTables, nodesCache>>
            /\ cwriter' = "free" \/ cwriter' # c
            /\ storeVars' = storeVars
     /\ \A c \in Callers :
          (lastRet' # lastRet /\ lastRet'.caller = c /\ lastRet'.ret = "error"
           /\ lastRet'.op \in {"CreateSchema", "CreateTable", "RegisterNode"}) =>
            cl[c].pc \in {"cs_alloc", "cs_store", "ct_alloc", "ct_store", "rn_store"}]_vars

\* A CreateTable call on a cached schema has failed at its storage write
\* after an earlier one had succeeded.
C21_Witness ==
  /\ lastRet.op = "CreateTable" /\ lastRet.ret = "error"
  /\ created # {}
  /\ \E r \in created : tableMap[r.schema][r.name].id = r.id
  /\ nextID = 4

\* C22 (as stated): a Load that returns without error leaves in the cache
\* every schema it read from the storage, with or without tables, and every
\* table of such a schema under its name; a Load that fails at one of its
\* reads returns an error and leaves the shard, schema and node caches as
\* they were.
C22_LoadResolvesEverything ==
  [][\A c \in Callers :
       /\ (cl[c].pc = "ld_cache" /\ cl'[c].pc = "idle") =>
            /\ lastRet' = Returned(c, "Load", "ok")
            /\ \A r \in cl[c].snap.schemas : schemasCache'[r.name] # 0
            /\ \A r \in cl[c].snap.schemas : \A t \in cl[c].snap.tables :
                 t.sid = r.id => tableMap'[r.name][t.name] # NoTable
       /\ (cl[c].pc = "ld_read" /\ cl'[c].pc = "idle") =>
            /\ lastRet' = Returned(c, "Load", "error")
            /\ <<schemasCache, tableMap, shardsLoaded, shardTables, nodesCache>>' =
                 <<schemasCache, tableMap, shardsLoaded, shardTables, nodesCache>>]_vars

\* C23: while fewer than MinNodeCount nodes are registered no scatter
\* procedure has fired: the cluster state is empty, no shard is assigned and
\* the ClusterView has not been written.
C23_NoScatterBeforeMinNodes ==
  Len(scNodes) < scCfg.minNodeCount =>
    /\ scView = [version |-> 0, state |-> "empty", shards |-> <<>>]
    /\ scCommits = 0
    /\ \A p \in ScatterProcs : sc[p].pc = "wait"

\* A node is registered, one short of MinNodeCount, and a scatter procedure
\* has looked at the cluster.
C23_Witness ==
  /\ Len(scNodes) = scCfg.minNodeCount - 1
  /\ Len(scNodes) >= 1
  /\ \A p \in ScatterProcs : sc[p].polled

\* Shards of an assignment that are on node n.
ShardsOn(shards, n) == {k \in DOMAIN shards : shards[k] = n}

\* C24 (as stated): once MinNodeCount nodes are registered and the state is
\* empty, the cluster eventually is stable with ShardTotal assignments over
\* exactly MinNodeCount nodes, each owning ShardTotal / MinNodeCount shards.
C24_ScatterEvenly ==
  (Len(scNodes) >= scCfg.minNodeCount /\ scView.state = "empty") ~>
    /\ scView.state = "stable"
    /\ Len(scView.shards) = scCfg.shardTotal
    /\ Cardinality(Range(scView.shards)) = scCfg.minNodeCount
    /\ \A n \in Range(scView.shards) :
         Cardinality(ShardsOn(scView.shards, n)) = scCfg.shardTotal \div scCfg.minNodeCount

\* C24 (amended): once MinNodeCount nodes are registered and the state is
\* empty, the cluster eventually is stable with ShardTotal assignments; they
\* are spread over exactly MinNodeCount nodes with ShardTotal / MinNodeCount
\* shards each when MinNodeCount divides ShardTotal, and no node owns more
\* than ceil(ShardTotal / MinNodeCount) otherwise.
C24_ScatterReachesStable ==
  (Len(scNodes) >= scCfg.minNodeCount /\ scView.state = "empty") ~>
    /\ scView.state = "stable"
    /\ Len(scView.shards) = scCfg.shardTotal
    /\ \A n \in Range(scView.shards) :
         Cardinality(ShardsOn(scView.shards, n)) * scCfg.minNodeCount
           < scCfg.shardTotal + scCfg.minNodeCount
    /\ scCfg.shardTotal % scCfg.minNodeCount = 0 =>
         /\ Cardinality(Range(scView.shards)) = scCfg.minNodeCount
         /\ \A n \in Range(scView.shards) :
              Cardinality(ShardsOn(scView.shards, n)) =
                scCfg.shardTotal \div scCfg.minNodeCount

\* Four shards are on two nodes, two on each, and the procedure has ended.
C24_Witness ==
  /\ scCfg = [shardTotal |-> 4, minNodeCount |-> 2]
  /\ scView.state = "stable"
  /\ Cardinality(Range(scView.shards)) = 2
  /\ \A n \in Range(scView.shards) : Cardinality(ShardsOn(scView.shards, n)) = 2
  /\ \E p \in ScatterProcs : sc[p].pc = "done" /\ sc[p].polled

\* C25: the cluster state goes from empty to stable once: one update of the
\* ClusterView succeeds, it makes version 1, and no later step of a scatter
\* procedure writes the view again.
C25_StableExactlyOnce ==
  [][/\ scCommits' <= 1
     /\ scView'.state = "stable" <=> scCommits' = 1
     /\ scView'.state = "stable" => scView'.version = 1
     /\ scView.state = "stable" => scView' = scView]_vars

\* Both procedures fired on the empty cluster with MinNodeCount nodes; one
\* has written the view, the other one met the conflict.
C25_Witness ==
  /\ scView.state = "stable"
  /\ scCommits = 1
  /\ \E p, q \in ScatterProcs :
       /\ sc[p].pc = "done" /\ sc[q].pc = "wait"
       /\ sc[q].nodes # <<>> /\ sc[q].version = 0
       /\ Len(sc[p].nodes) = scCfg.minNodeCount

\* C26: the assignment allocNodeShards returned has shardTotal entries, each
\* a node of the list; it starts with the first node and goes through the
\* list in order, leaving a node only when it has ceil(shardTotal /
\* minNodeCount) shards, so that no node has more; two shards over four nodes
\* are on the first two nodes, three shards over two nodes on the first, the
\* first and the second.
C26_AllocNodeShards ==
  scView.state = "stable" =>
    LET r == scView.shards
        pos(n) == CHOOSE i \in 1..Len(scNodes) : scNodes[i] = n
    IN  /\ Len(r) = scCfg.shardTotal
        /\ \A k \in 1..Len(r) : r[k] \in Range(scNodes)
        /\ r[1] = scNodes[1]
        /\ \A k \in 1..(Len(r) - 1) :
             \/ r[k + 1] = r[k]
             \/ /\ pos(r[k + 1]) = pos(r[k]) + 1
                /\ (Cardinality(ShardsOn(r, r[k])) - 1) * scCfg.minNodeCount
                     < scCfg.shardTotal
                /\ Cardinality(ShardsOn(r, r[k])) * scCfg.minNodeCount
                     >= scCfg.shardTotal
        /\ \A n \in Range(r) :
             Cardinality(ShardsOn(r, n)) * scCfg.minNodeCount
               < scCfg.shardTotal + scCfg.minNodeCount
        /\ scCfg = [shardTotal |-> 2, minNodeCount |-> 4] =>
             r = <<scNodes[1], scNodes[2]>>
        /\ scCfg = [shardTotal |-> 3, minNodeCount |-> 2] =>
             r = <<scNodes[1], scNodes[1], scNodes[2]>>

\* Three shards have been spread over node0 and node1.
C26_Witness ==
  /\ scCfg = [shardTotal |-> 3, minNodeCount |-> 2]
  /\ scView.state = "stable"
  /\ scView.shards = <<"node0", "node0", "node1">>

PartitionKinds == {"CreatePartitionTable", "DropPartitionTable"}

\* The root and every sub-table are resolvable and the root alone is marked
\* partitioned.
AllResolvable(tables) ==
  /\ tables[RootTable] = [exists |-> TRUE, partitioned |-> TRUE]
  /\ \A k \in DOMAIN SubTables :
       tables[SubTables[k]] = [exists |-> TRUE, partitioned |-> FALSE]

NoneResolvable(tables) ==
  \A t \in DOMAIN tables : ~tables[t].exists

\* C27: as long as no later procedure on the table has started to run, a
\* finished CreatePartitionTable leaves the root and all its sub-tables
\* resolvable with the root marked partitioned, and a finished
\* DropPartitionTable leaves none of them resolvable; this for every create
\* and drop of a sequence, crashes included.
C27_PartitionTableCreatedAndDropped ==
  \A id \in ProcIDs :
    (/\ pmeta[id].kind \in PartitionKinds
     /\ pmeta[id].state = "finished"
     /\ \A j \in ProcIDs :
          (j > id /\ pmeta[j].kind \in PartitionKinds) => pmeta[j].state = "init")
    => IF pmeta[id].kind = "CreatePartitionTable"
         THEN AllResolvable(ptables)
         ELSE NoneResolvable(ptables)

\* The table has been created and dropped, with a crash on the way.
C27_Witness ==
  /\ pmeta[1].kind = "CreatePartitionTable" /\ pmeta[1].state = "finished"
  /\ pmeta[2].kind = "DropPartitionTable" /\ pmeta[2].state = "finished"
  /\ ncrash = 1
  /\ NoneResolvable(ptables)

\* Positions of the events of procedure id with the given op.
EventsOf(id, op) == {i \in DOMAIN events : events[i].pid = id /\ events[i].op = op}

C29_TransferLeaderOrder ==
  [][/\ Cardinality(ShardLeaders(pview')) = 1
     /\ \A id \in ProcIDs :
          pmeta'[id].kind = "TransferLeader" =>
            LET closes == {i \in DOMAIN events' :
                             events'[i].pid = id /\ events'[i].op = "CloseShard"}
                opens == {i \in DOMAIN events' :
                            events'[i].pid = id /\ events'[i].op = "OpenShard"}
                updates == {i \in DOMAIN events' :
                              events'[i].pid = id /\ events'[i].op = "UpdateClusterView"}
            IN  /\ \A i \in closes : events'[i].node = pmeta'[id].old
                /\ \A i \in opens : events'[i].node = pmeta'[id].new
                /\ \A i \in closes : \A u \in updates : i < u
                /\ \A u \in updates : \A i \in opens : u < i
                /\ Cardinality(updates) <= 1
                /\ updates # {} => closes # {}
                /\ opens # {} => updates # {}
                /\ \A u \in updates : events'[u].ver = pmeta'[id].ver + 1
                /\ pmeta'[id].state = "finished" => opens # {}
                /\ (pmeta[id].step = 1 /\ pmeta'[id].step = 2) =>
                     /\ pview'.version = pview.version + 1
                     /\ ShardLeaders(pview') = {pmeta[id].new}]_vars

\* The leader of the shard has moved from node0 to node1 and back.
C29_Witness ==
  /\ pmeta[1].kind = "TransferLeader" /\ pmeta[1].state = "finished"
  /\ pmeta[2].kind = "TransferLeader" /\ pmeta[2].state = "finished"
  /\ pmeta[1].new = "node1" /\ pmeta[2].new = "node0"
  /\ pview.version = 2
  /\ ShardLeaders(pview) = {"node0"}
  /\ Len(events) >= 6

\* C30 (as stated): the IDs the allocator returns are strictly increasing,
\* also across restarts, and no two schema IDs and no two table IDs handed
\* out are equal, the schema ID being the allocated ID converted to 32 bits.
C30_AllocatedIDsUnique ==
  \A i, j \in DOMAIN handed :
    i < j =>
      /\ handed[i].raw < handed[j].raw
      /\ handed[i].kind = handed[j].kind => handed[i].id # handed[j].id

\* C31 (as stated): the forwarder opens a new forwarded stream only when no
\* forwarded stream exists or when the leader's address differs from the
\* address of the current forwarded stream, so that frames arriving while the
\* leader's address is unchanged reuse the forwarded stream; and at most one
\* forwarded stream of an inbound stream is live.
C31_ForwardedStreamReused ==
  /\ [][\A s \in Streams :
          Len(hb'[s].fwd) > Len(hb[s].fwd) =>
            \/ hb[s].stream = 0
            \/ hb[s].fwd[hb[s].stream].addr # getForwardedAddr]_vars
  /\ [](\A s \in Streams :
          Cardinality({i \in DOMAIN hb[s].fwd : hb[s].fwd[i].state = "open"}) <= 1)

\* C32 (as stated): once this instance is the leader, a frame of a stream whose
\* frames it was forwarding is handled locally: maybeInitForwardedStream leaves
\* no forwarded stream for the frame to be sent on.
C32_LeaderHandlesLocally ==
  [][\A s \in Streams :
       (hb[s].pc = "init" /\ hb'[s].pc = "send" /\ leader = "local") =>
         hb'[s].stream = 0]_vars

\* C33 (as stated): when a newer stream of node n has bound its sender, the
\* closing of an older stream of the same node leaves the binding alone: the
\* unbind of a stream never removes a sender that is another stream's.
C33_OlderCloseKeepsNewerBinding ==
  [][\A t \in Streams, n \in Nodes :
       (hb[t].pc = "unbind" /\ hb'[t].pc = "cancel"
          /\ senders[n] # "none" /\ senders[n] # t) =>
         senders'[n] = senders[n]]_vars

\* C34 (as stated): getShardTables queries exactly the shard IDs of the request
\* when the request names any, and exactly the shard IDs of the cluster's
\* topology when it names none.
C34_QueriesExactlyTheRequestedShards ==
  gst.ret = "ok" =>
    Range(gst.shardIDs) = IF Len(gst.req.shardIDs) # 0
                            THEN Range(gst.req.shardIDs)
                            ELSE gst.shards

\* C35: a TryLock of a list whose entries are all free, the empty list and lists
\* with repeated entries included, returns true and adds exactly the entries of
\* the list (nothing for the empty list); an UnLock of a list whose entries are
\* all in the lock set returns without panic and removes exactly them; so, as
\* long as every UnLock names entries its caller holds, the lock set is the
\* union of what the procedures hold and TryLock(L) followed by UnLock(L) leaves
\* it as it was.
C35_TryLockUnLockRoundTrip ==
  /\ \A p \in Procs :
       (lpc[p] = "tl_unlock" /\ Range(locks[p]) \cap lpre[p] = {}) =>
          /\ lret[p] = "true"
          /\ entryLocks = lpre[p] \cup Range(locks[p])
  /\ \A p \in Procs :
       (lpc[p] \in {"ul_unlock", "panicked"} /\ Range(locks[p]) \subseteq lpre[p]) =>
          /\ lret[p] = "ok"
          /\ entryLocks = lpre[p] \ Range(locks[p])
  /\ (~misuse /\ lock = "free") => entryLocks = UNION {holds[p] : p \in Procs}

\* C35 witness: UnLock(<<1, 1>>) returns after a TryLock of the same list, the
\* lock set is empty again, and the other procedure has called TryLock with
\* the empty list and waits for the mutex.
C35_Witness ==
  /\ ~misuse
  /\ lpc["p1"] = "ul_unlock" /\ lret["p1"] = "ok" /\ locks["p1"] = <<1, 1>>
  /\ lpre["p1"] = {1}
  /\ entryLocks = {}
  /\ lpc["p2"] = "tl_lock" /\ locks["p2"] = <<>>

\* C36 (as stated): when Load has returned, the list GetShardIDs returns for a
\* node holds every shard the topology places on the node once, and no other
\* shard.
C36_ShardIDsOnceAfterLoad ==
  [][\A c \in Callers :
       (cl[c].pc = "ld_cache" /\ cl'[c].pc = "idle") =>
         \A n \in NodeNames :
           nodesCache'[n].present =>
             GetShardIDs(n)' =
               [s \in ShardIDs |->
                  IF [id |-> s, node |-> n] \in cl[c].snap.shardNodes THEN 1 ELSE 0]]_vars

\* C37 (as stated): when the RegisterNode calls for a node have completed and
\* no call is in progress, the node's stats in the cache are those of the row
\* that was written to the storage last.
C37_RegisterNodeCacheIsLastWrite ==
  (\A c \in Callers : cl[c].pc = "idle") =>
    \A n \in NodeNames :
      nodesCache[n].present => nodesCache[n].lease = stNodes[n]

HoldsShard(s, n) ==
  /\ n \in gts.nodesLoaded
  /\ \E i \in DOMAIN gts.view : gts.view[i].id = s /\ gts.view[i].node = n

\* The role the topology records for the pair (s, n).
RoleOfPair(s, n) ==
  LET i == CHOOSE k \in DOMAIN gts.view : gts.view[k].id = s /\ gts.view[k].node = n
  IN  gts.view[i].role

\* C39 (as stated): GetTables returns ErrShardNotFound only if a requested
\* shard is not cached and ErrNodeNotFound only if the node holds no entry of
\* a requested shard; otherwise it returns, for every requested shard, all
\* tables of the shard and the role the topology records for that shard and
\* that node, also when another node of the shard is not in the node cache.
C39_GetTablesRoleOfThePair ==
  gts.req # NoGtsCall =>
    LET asked == Range(gts.req.shardIDs)
        n == gts.req.nodeName
    IN  /\ gts.ret.err = "ErrShardNotFound" =>
             \E s \in asked : s \notin DOMAIN gts.shardsCache
        /\ gts.ret.err = "ErrNodeNotFound" =>
             \E s \in asked : s \in DOMAIN gts.shardsCache /\ ~HoldsShard(s, n)
        /\ (\A s \in asked : s \in DOMAIN gts.shardsCache /\ HoldsShard(s, n)) =>
             /\ gts.ret.err = "none"
             /\ gts.ret.shardTables =
                  {[shard |-> s, shardRole |-> RoleOfPair(s, n), tables |-> gts.tables[s]] :
                     s \in asked}

\* C40: converted to the protobuf value and back, ShardStatus Ready and
\* PartialOpen, NodeState Online and Offline, ShardRole Leader and Follower and
\* ClusterState Empty, Prepare and Stable come back as themselves, ShardStatus
\* Unknown comes back as Ready and NodeState Unknown as Offline; the protobuf
\* cluster states AWAITING_OPEN and AWAITING_CLOSE are read as Empty.
C40_EnumRoundTrip ==
  /\ \A k \in ConvKinds :
       (conv[k].val # "none" /\ conv[k].back # "none") =>
          /\ conv[k].val \in {"ShardStatusReady", "ShardStatusPartialOpen",
                              "NodeStateOnline", "NodeStateOffline",
                              "ShardRoleLeader", "ShardRoleFollower",
                              "ClusterStateEmpty", "ClusterStatePrepare",
                              "ClusterStateStable"} => conv[k].back = conv[k].val
          /\ conv[k].val = "ShardStatusUnknown" => conv[k].back = "ShardStatusReady"
          /\ conv[k].val = "NodeStateUnknown" => conv[k].back = "NodeStateOffline"
  /\ (/\ conv["ClusterState"].pb \in {"ClusterView_AWAITING_OPEN",
                                      "ClusterView_AWAITING_CLOSE"}
      /\ conv["ClusterState"].back # "none") =>
       conv["ClusterState"].back = "ClusterStateEmpty"

\* C40 witness: an Unknown shard status has come back as Ready and an Unknown
\* node state as Offline, a Leader role has come back as itself, and
\* AWAITING_OPEN has been read as Empty.
C40_Witness ==
  /\ conv["ShardStatus"].val = "ShardStatusUnknown"
  /\ conv["ShardStatus"].back = "ShardStatusReady"
  /\ conv["NodeState"].val = "NodeStateUnknown"
  /\ conv["NodeState"].back = "NodeStateOffline"
  /\ conv["ShardRole"].val = "ShardRoleLeader"
  /\ conv["ShardRole"].back = "ShardRoleLeader"
  /\ conv["ClusterState"].pb = "ClusterView_AWAITING_OPEN"
  /\ conv["ClusterState"].back = "ClusterStateEmpty"

=============================================================================
